---- MODULE Spec2Model ----
(***************************************************************************)
(* The biometric-terminal subsystem of PCM_Assets                          *)
(* (src/app/routers/biometric.py): the iClock PUSH endpoints               *)
(*   GET/POST /iclock/cdata, GET /iclock/getrequest, POST /iclock/devicecmd *)
(*   and POST /admin/device/{sn}/clear-attlog,                             *)
(* over the two tables attendance_logs and attendance_sessions             *)
(* (src/models.py) and the module-level queue state and ring buffers.      *)
(*                                                                         *)
(* Every handler is an `async def` that awaits only the request body, so   *)
(* one handler call is one atomic step of the state machine.               *)
(*                                                                         *)
(* Optional values (Python None) are sequences of length at most one:      *)
(* None is <<>> and a present value v is <<v>>.                            *)
(***************************************************************************)
EXTENDS Integers, Sequences, FiniteSets, TLC

VARIABLES
    attendance_logs,        \* committed rows of table attendance_logs, in id order
    attendance_sessions,    \* committed rows of table attendance_sessions, in id order
    NEXT_CMD_ID,            \* module global, biometric.py:38
    PENDING_CLEAR_BY_SN,    \* module global dict, biometric.py:39
    WAITING_ACK_BY_SN,      \* module global dict, biometric.py:40
    LAST_ICLOCK,            \* ring buffer of raw hits, biometric.py:32
    LAST_HANDSHAKES,        \* ring buffer of handshakes, biometric.py:33
    LAST_GETREQUEST_POLLS,  \* ring buffer of mailbox polls, biometric.py:34
    LAST_PUSH_ACKS,         \* ring buffer of acknowledgements, biometric.py:35
    response,               \* the response of the last handled call
    attlog_counts,          \* stored_count / error_count of the last ATTLOG loop
    dispatched,             \* the ids of the C:<id>: responses sent, in order
    handshake_bodies,       \* the handshake responses sent: <<SN, body>>
    tasks                   \* the handler calls in progress, by arrival number

vars == <<attendance_logs, attendance_sessions, NEXT_CMD_ID, PENDING_CLEAR_BY_SN,
          WAITING_ACK_BY_SN, LAST_ICLOCK, LAST_HANDSHAKES, LAST_GETREQUEST_POLLS,
          LAST_PUSH_ACKS, response, attlog_counts, dispatched, handshake_bodies,
          tasks>>

store_vars == <<attendance_logs, attendance_sessions>>
queue_vars == <<NEXT_CMD_ID, PENDING_CLEAR_BY_SN, WAITING_ACK_BY_SN>>
ring_vars  == <<LAST_ICLOCK, LAST_HANDSHAKES, LAST_GETREQUEST_POLLS, LAST_PUSH_ACKS>>

(***************************************************************************)
(* Bounds of the model.                                                    *)
(***************************************************************************)
MaxRequests == 3    \* calls that append to a ring buffer, per behaviour
MaxBatch == 2       \* lines of one ATTLOG body
MaxTasks == 4       \* handler calls of one behaviour that is followed step by step
MaxUploads == 2     \* uploads among them

(***************************************************************************)
(* Program constants.                                                      *)
(***************************************************************************)
FIRST_CMD_ID == 9001
RING_CAPACITY == 50
SERVER_PUSH_PROTOCOL_VERSION == "2.3.2"
SERVER_TIMEZONE == "2"

VERIFY_TYPE_MAP ==
    (0 :> "fingerprint") @@ (1 :> "password") @@ (2 :> "rfid_card") @@
    (3 :> "face") @@ (4 :> "palm") @@ (255 :> "unknown")

(***************************************************************************)
(* Python values and conversions.                                          *)
(***************************************************************************)
None == <<>>
Some(v) == <<v>>

\* A query parameter the request does not carry.
Absent == "<absent>"

\* request.query_params.get(name, default)
QueryGet(param, default) == IF param = Absent THEN default ELSE param

\* The poll is a handshake poll: options=all or a non-empty pushver.
IsHandshake(options, pushver) ==
    QueryGet(options, "") = "all" \/ QueryGet(pushver, "") # ""

\* dict.get(key) / dict.get(key, default) on a dict modelled as a function
DictGet(d, key, default) == IF key \in DOMAIN d THEN d[key] ELSE default

DictSet(d, key, value) ==
    [k \in (DOMAIN d) \cup {key} |-> IF k = key THEN value ELSE d[k]]

DictPop(d, key) == [k \in (DOMAIN d) \ {key} |-> d[k]]

EmptyDict == [k \in {} |-> TRUE]

\* int(s) on the numerals the model's requests use; every other string
\* raises ValueError (None).  int() strips blanks and leading zeros.
IntLiterals ==
    ("0" :> 0) @@ ("1" :> 1) @@ ("15" :> 15) @@ ("255" :> 255) @@
    ("9001" :> 9001) @@ ("09001" :> 9001) @@ ("9002" :> 9002) @@
    ("9003" :> 9003) @@ ("9004" :> 9004) @@ ("9005" :> 9005) @@
    ("-1" :> (0 - 1)) @@ ("-1002" :> (0 - 1002))

PyInt(s) == IF s \in DOMAIN IntLiterals THEN Some(IntLiterals[s]) ELSE None

\* str(n) for the command ids the server mints
PyStr(n) == ToString(n)

\* datetime.strptime(s.strip(), "%Y-%m-%d %H:%M:%S") on the datetime strings
\* the model's requests use, as seconds after 2024-01-10 00:00:00; strptime
\* accepts fields without zero padding, every other string raises
\* ValueError.
DateTimeLiterals ==
    ("2024-01-10 08:00:00" :> 28800) @@ ("2024-1-10 8:00:00" :> 28800) @@
    ("2024-01-10 17:00:00" :> 61200) @@ ("2024-01-11 08:00:00" :> 115200) @@
    ("2024-01-11 17:00:00" :> 147600)

parse_iclock_datetime(dt_str) ==
    IF dt_str = "" THEN None
    ELSE IF dt_str \in DOMAIN DateTimeLiterals
         THEN Some(DateTimeLiterals[dt_str])
         ELSE None

\* A request body is modelled by what the two parsers make of its text:
\*   form  - urllib.parse.parse_qs(text): the first value of each field
\*   lines - text.splitlines(), each line already split on "\t"
\* An ATTLOG text has no "=": parse_qs gives it no ID and no Return field.
\* A URL-encoded acknowledgement has no tab: it is one line of one part.
AttlogBody(lines) == [form |-> EmptyDict, lines |-> lines]
FormBody(form) == [form |-> form, lines |-> << <<"ID=&Return=">> >>]
EmptyBody == [form |-> EmptyDict, lines |-> <<>>]

_extract_push_ack_fields(body) ==
    IF ~({"ID", "Return"} \subseteq DOMAIN body.form)
    THEN None
    ELSE Some([id     |-> DictGet(body.form, "ID", ""),
               sn     |-> DictGet(body.form, "SN", ""),
               return |-> DictGet(body.form, "Return", ""),
               cmd    |-> DictGet(body.form, "CMD", "")])

\* Mutation of RingAppend: the oldest entry is dropped as soon as the
\* buffer reaches its capacity.
RingAppend_EvictsEarly(buf, entry) ==
    LET appended == Append(buf, entry)
    IN  IF Len(appended) >= RING_CAPACITY THEN Tail(appended) ELSE appended

\* buf.append(entry); if len(buf) > 50: buf.pop(0)
RingAppend(buf, entry) ==
    LET appended == Append(buf, entry)
    IN  IF Len(appended) > RING_CAPACITY THEN Tail(appended) ELSE appended

OkResponse == [status |-> 200, body |-> "OK\n"]
ErrorResponse == [status |-> 500, body |-> "ERROR\n"]

\* str.strip() on the field values the model's requests use: the padded
\* literals lose their blanks, every other value has none to lose.
PaddedLiterals == (" 7" :> "7") @@ ("7 " :> "7")

Strip(s) == IF s \in DOMAIN PaddedLiterals THEN PaddedLiterals[s] ELSE s

(***************************************************************************)
(* The ATTLOG loop of iclock_cdata (biometric.py:184-269) inside one       *)
(* SQLAlchemy session.  SessionLocal is made with autoflush=False          *)
(* (database.py:21, 26), so a query reads the committed rows only: an      *)
(* object added with db.add() in this request is not in any query result   *)
(* before db.commit(), and a committed row the request has changed in      *)
(* memory is still selected by its committed column values, while the      *)
(* query hands back the same in-memory object (identity map).              *)
(*                                                                         *)
(* A transaction txn is                                                    *)
(*   new_logs      AttendanceLog objects added, not flushed                *)
(*   sessions      the in-memory objects of the committed session rows     *)
(*   new_sessions  AttendanceSession objects added, not flushed            *)
(*   stored_count, error_count   the loop's counters                       *)
(***************************************************************************)
BeginTxn(db_sessions) ==
    [new_logs |-> <<>>, sessions |-> db_sessions, new_sessions |-> <<>>,
     stored_count |-> 0, error_count |-> 0]

\* Mutation of ExistingLogQuery: only the newest row is compared.
ExistingLogQuery_NewestRow(db_logs, pin, timestamp) ==
    /\ db_logs # <<>>
    /\ db_logs[Len(db_logs)].pin = pin
    /\ db_logs[Len(db_logs)].timestamp = timestamp

\* db.query(AttendanceLog).filter(pin == pin, timestamp == timestamp).first()
ExistingLogQuery(db_logs, pin, timestamp) ==
    \E i \in DOMAIN db_logs :
        db_logs[i].pin = pin /\ db_logs[i].timestamp = timestamp

\* Mutation of OpenSessionQuery: the newest session of the badge is taken,
\* open or closed.
OpenSessionQuery_AnyLatest(db_sessions, pin) ==
    LET mine == {i \in DOMAIN db_sessions : db_sessions[i].pin = pin}
    IN  {i \in mine :
            \A j \in mine : db_sessions[j].check_in <= db_sessions[i].check_in}

\* db.query(AttendanceSession).filter(pin == pin, check_out IS NULL)
\*   .order_by(check_in.desc()).first(): the rows the query may return (the
\* order among rows of equal check_in is the database's choice).
OpenSessionQuery(db_sessions, pin) ==
    LET open == {i \in DOMAIN db_sessions :
                    db_sessions[i].pin = pin /\ db_sessions[i].check_out = None}
    IN  {i \in open :
            \A j \in open : db_sessions[j].check_in <= db_sessions[i].check_in}

\* Mutation of CountError: a rejected line discards what the batch has
\* added so far.
CountError_DropsBatch(txn) ==
    [txn EXCEPT !.new_logs = <<>>, !.new_sessions = <<>>, !.stored_count = 0,
                !.error_count = @ + 1]

\* error_count += 1; continue
CountError(txn) == [txn EXCEPT !.error_count = @ + 1]

\* Mutation of PairEvent: the status code decides: code 0 is a check-in
\* and opens a session, every other code closes the open one.
PairEvent_ByStatus(db_sessions, txn, log) ==
    LET open_sessions == OpenSessionQuery(db_sessions, log.pin)
    IN
    IF open_sessions # {} /\ log.status # 0
    THEN {[txn EXCEPT !.sessions[i] =
              [@ EXCEPT !.check_out = Some(log.timestamp), !.status = "closed"]]
          : i \in open_sessions}
    ELSE {[txn EXCEPT !.new_sessions =
              Append(@, [pin       |-> log.pin,
                         check_in  |-> log.timestamp,
                         check_out |-> None,
                         status    |-> "open"])]}

\* Mutation of PairEvent: closing writes the check-out and leaves the
\* status column as it was.
PairEvent_KeepsStatus(db_sessions, txn, log) ==
    LET open_sessions == OpenSessionQuery(db_sessions, log.pin)
    IN
    IF open_sessions # {}
    THEN {[txn EXCEPT !.sessions[i] = [@ EXCEPT !.check_out = Some(log.timestamp)]]
          : i \in open_sessions}
    ELSE {[txn EXCEPT !.new_sessions =
              Append(@, [pin       |-> log.pin,
                         check_in  |-> log.timestamp,
                         check_out |-> None,
                         status    |-> "open"])]}

\* The pairing of an accepted event (biometric.py:237-254): the open
\* session the query returns is closed at the event's timestamp; without
\* one, a session is opened at it.
PairEvent(db_sessions, txn, log) ==
    LET open_sessions == OpenSessionQuery(db_sessions, log.pin)
    IN
    IF open_sessions # {}
    THEN {[txn EXCEPT !.sessions[i] =
              [@ EXCEPT !.check_out = Some(log.timestamp), !.status = "closed"]]
          : i \in open_sessions}
    ELSE {[txn EXCEPT !.new_sessions =
              Append(@, [pin       |-> log.pin,
                         check_in  |-> log.timestamp,
                         check_out |-> None,
                         status    |-> "open"])]}

\* Mutation of ProcessLine: a line whose event is already stored adds no
\* event and is not counted, but is paired like an accepted one.
ProcessLine_PairsDuplicates(db_logs, db_sessions, txn, line, device_sn) ==
    IF line = <<"">> THEN {txn}
    ELSE IF Len(line) < 4 THEN {CountError(txn)}
    ELSE
      LET pin         == Strip(line[1])
          status      == PyInt(Strip(line[3]))
          verify_type == PyInt(Strip(line[4]))
          timestamp   == parse_iclock_datetime(Strip(line[2]))
      IN
      IF status = None \/ verify_type = None THEN {CountError(txn)}
      ELSE IF timestamp = None THEN {CountError(txn)}
      ELSE
        LET log == [pin              |-> pin,
                    timestamp        |-> timestamp[1],
                    status           |-> status[1],
                    verify_type      |-> verify_type[1],
                    verify_type_name |-> DictGet(VERIFY_TYPE_MAP, verify_type[1], "unknown"),
                    raw_data         |-> line,
                    device_sn        |-> device_sn]
            added == [txn EXCEPT !.new_logs = Append(@, log),
                                 !.stored_count = @ + 1]
        IN  IF ExistingLogQuery(db_logs, pin, timestamp[1])
            THEN PairEvent(db_sessions, txn, log)
            ELSE PairEvent(db_sessions, added, log)

\* One iteration of `for line in lines`: the set of transactions it may
\* leave behind.
ProcessLine(db_logs, db_sessions, txn, line, device_sn) ==
    IF line = <<"">> THEN {txn}
    ELSE IF Len(line) < 4 THEN {CountError(txn)}
    ELSE
      LET pin         == Strip(line[1])
          status      == PyInt(Strip(line[3]))
          verify_type == PyInt(Strip(line[4]))
          timestamp   == parse_iclock_datetime(Strip(line[2]))
      IN
      IF status = None \/ verify_type = None THEN {CountError(txn)}
      ELSE IF timestamp = None THEN {CountError(txn)}
      ELSE IF ExistingLogQuery(db_logs, pin, timestamp[1]) THEN {txn}
      ELSE
        LET log == [pin              |-> pin,
                    timestamp        |-> timestamp[1],
                    status           |-> status[1],
                    verify_type      |-> verify_type[1],
                    verify_type_name |-> DictGet(VERIFY_TYPE_MAP, verify_type[1], "unknown"),
                    raw_data         |-> line,
                    device_sn        |-> device_sn]
            added == [txn EXCEPT !.new_logs = Append(@, log),
                                 !.stored_count = @ + 1]
        IN  PairEvent(db_sessions, added, log)

RECURSIVE ProcessLines(_, _, _, _, _)
ProcessLines(db_logs, db_sessions, txns, lines, device_sn) ==
    IF lines = <<>> THEN txns
    ELSE ProcessLines(db_logs, db_sessions,
                      UNION {ProcessLine(db_logs, db_sessions, t, Head(lines), device_sn)
                             : t \in txns},
                      Tail(lines), device_sn)

\* The transactions the whole loop may end in, from the committed tables.
AttlogLoop(db_logs, db_sessions, lines, device_sn) ==
    ProcessLines(db_logs, db_sessions, {BeginTxn(db_sessions)}, lines, device_sn)

\* Mutation of CommitLogs: the table keeps the three newest events.
CommitLogs_Retention(db_logs, txn) ==
    LET all == db_logs \o txn.new_logs
    IN  IF Len(all) > 3 THEN SubSeq(all, Len(all) - 2, Len(all)) ELSE all

\* db.commit(): the flush writes the added rows after the existing ones
\* and the changed attributes of the loaded rows.
CommitLogs(db_logs, txn) == db_logs \o txn.new_logs
CommitSessions(txn) == txn.sessions \o txn.new_sessions

\* Mutation of RollbackLogs: every line but the last was committed on its
\* own before the commit that failed.
RollbackLogs_PerLineCommit(db_logs, txn) ==
    IF txn.new_logs = <<>> THEN db_logs
    ELSE db_logs \o SubSeq(txn.new_logs, 1, Len(txn.new_logs) - 1)

\* db.rollback() after a commit that raised: the added objects are dropped
\* and the loaded rows keep their committed values.
RollbackLogs(db_logs, txn) == db_logs
RollbackSessions(db_sessions, txn) == db_sessions

\* Mutation of CommitResponse: a batch with a rejected line is answered
\* with the error response.
CommitResponse_ErrorOnRejectedLine(txn, commit_ok) ==
    IF commit_ok /\ txn.error_count = 0 THEN OkResponse ELSE ErrorResponse

\* The response of an ATTLOG upload whose loop ended in txn
\* (biometric.py:272-282): the counters are logged, never returned.
CommitResponse(txn, commit_ok) ==
    IF commit_ok THEN OkResponse ELSE ErrorResponse

(***************************************************************************)
(* The command queue.                                                      *)
(***************************************************************************)
\* Mutation of _next_cmd_id: the counter is not advanced.
_next_cmd_id_NoIncrement(counter) == [cmd_id |-> counter, NEXT_CMD_ID |-> counter]

\* _next_cmd_id(): the id it returns and the value it leaves in NEXT_CMD_ID.
_next_cmd_id(counter) == [cmd_id |-> counter, NEXT_CMD_ID |-> counter + 1]

\* Mutation of PollDispatches: a serial awaiting an acknowledgement is
\* served again.
PollDispatches_Redispatch(sn, pending, waiting) ==
    /\ sn # ""
    /\ DictGet(pending, sn, FALSE)

\* Mutation of PollDispatches: the pending flag is not consulted.
PollDispatches_Unqueued(sn, pending, waiting) ==
    /\ ~(sn \in DOMAIN waiting)
    /\ sn # ""

\* Whether a poll for sn dispatches the queued command (biometric.py:521-524):
\* sn is not awaiting an acknowledgement, is not empty and has the flag set.
PollDispatches(sn, pending, waiting) ==
    /\ ~(sn \in DOMAIN waiting)
    /\ sn # ""
    /\ DictGet(pending, sn, FALSE)

\* Mutation of AckSn: the serial of the query string comes first and the
\* SN field of the body is used only without it.
AckSn_QueryFirst(ack, default_sn) ==
    IF default_sn \notin {"", "unknown"} THEN default_sn ELSE ack.sn

\* The acknowledgement correlator, the same code in iclock_cdata
\* (biometric.py:157-176) and iclock_devicecmd (biometric.py:541-559):
\* the waiting-ack map after an acknowledgement ack arrives with the
\* query-string serial default_sn.
AckSn(ack, default_sn) == IF ack.sn # "" THEN ack.sn ELSE default_sn

AckId(ack) == IF PyInt(ack.id) = None THEN 0 - 1 ELSE PyInt(ack.id)[1]

\* Mutation of AckWaiting: any acknowledgement for a waiting serial clears it.
AckWaiting_AnyId(waiting, ack, default_sn) ==
    IF AckSn(ack, default_sn) \in DOMAIN waiting
    THEN DictPop(waiting, AckSn(ack, default_sn))
    ELSE waiting

\* Mutation of AckWaiting: only a successful command (Return=0) is cleared.
AckWaiting_SuccessOnly(waiting, ack, default_sn) ==
    IF /\ AckSn(ack, default_sn) \in DOMAIN waiting
       /\ waiting[AckSn(ack, default_sn)] = AckId(ack)
       /\ ack.return = "0"
    THEN DictPop(waiting, AckSn(ack, default_sn))
    ELSE waiting

\* Mutation of AckWaiting: an acknowledgement of a later id also clears the
\* entry.
AckWaiting_Cumulative(waiting, ack, default_sn) ==
    IF /\ AckSn(ack, default_sn) \in DOMAIN waiting
       /\ waiting[AckSn(ack, default_sn)] <= AckId(ack)
    THEN DictPop(waiting, AckSn(ack, default_sn))
    ELSE waiting

AckWaiting(waiting, ack, default_sn) ==
    IF /\ AckSn(ack, default_sn) \in DOMAIN waiting
       /\ waiting[AckSn(ack, default_sn)] = AckId(ack)
    THEN DictPop(waiting, AckSn(ack, default_sn))
    ELSE waiting

AckEntry(ack, default_sn) ==
    [sn |-> AckSn(ack, default_sn), id |-> ack.id,
     return |-> ack.return, cmd |-> ack.cmd]

CommandPayload(cmd_id) == "C:" \o PyStr(cmd_id) \o ":CLEAR LOG\n"

\* What the terminals have been sent: the id of a response that is a
\* command, given the counter before the call (no id above it exists yet).
SentIds(resp, counter) ==
    LET ids == {id \in FIRST_CMD_ID..counter : resp.body = CommandPayload(id)}
    IN  IF ids = {} THEN <<>> ELSE <<CHOOSE id \in ids : TRUE>>

HandshakeBody(device_sn) ==
    "GET OPTION FROM: " \o device_sn \o "\n" \o
    "ErrorDelay=60\n" \o "Delay=10\n" \o "TransInterval=1\n" \o
    "TransFlag=TransData AttLog\n" \o
    "TimeZone=" \o SERVER_TIMEZONE \o "\n" \o
    "Realtime=1\n" \o
    "PushProtVer=" \o SERVER_PUSH_PROTOCOL_VERSION \o "\n"

(***************************************************************************)
(* A handler call (an asyncio task of the server).  pc is the line of      *)
(* biometric.py the call stands at: "idle" before the request arrives,     *)
(* "done" after the response.                                              *)
(***************************************************************************)
NoResponse == [status |-> 0, body |-> ""]

IdleTask ==
    [op |-> "idle", pc |-> "idle", SN |-> Absent, options |-> Absent,
     pushver |-> Absent, body |-> EmptyBody,
     commit_ok |-> TRUE, sn |-> "", cmd_id |-> 0, peers |-> {},
     response |-> NoResponse]

(***************************************************************************)
(* Initial state: the module has just been imported, the tables are empty. *)
(***************************************************************************)
Init ==
    /\ attendance_logs = <<>>
    /\ attendance_sessions = <<>>
    /\ NEXT_CMD_ID = FIRST_CMD_ID
    /\ PENDING_CLEAR_BY_SN = EmptyDict
    /\ WAITING_ACK_BY_SN = EmptyDict
    /\ LAST_ICLOCK = <<>>
    /\ LAST_HANDSHAKES = <<>>
    /\ LAST_GETREQUEST_POLLS = <<>>
    /\ LAST_PUSH_ACKS = <<>>
    /\ response = OkResponse
    /\ attlog_counts = [stored_count |-> 0, error_count |-> 0]
    /\ dispatched = <<>>
    /\ handshake_bodies = {}
    /\ tasks = [t \in 1..MaxTasks |-> IdleTask]

(***************************************************************************)
(* GET /iclock/cdata (biometric.py:109-138).                               *)
(***************************************************************************)
\* Mutation of IclockCdataGet: the version is negotiated down to that of a
\* device that advertises an older one.
IclockCdataGet_Negotiated(SN, options, pushver) ==
    LET device_sn      == QueryGet(SN, "unknown")
        opt            == QueryGet(options, "")
        device_pushver == QueryGet(pushver, "")
        negotiated     == IF device_pushver = "2.2.14" THEN device_pushver
                          ELSE SERVER_PUSH_PROTOCOL_VERSION
    IN
    /\ IF opt = "all" \/ device_pushver # ""
       THEN /\ LAST_HANDSHAKES' = RingAppend(LAST_HANDSHAKES,
                   [sn             |-> device_sn,
                    device_pushver |-> IF device_pushver # "" THEN device_pushver
                                       ELSE "(missing)",
                    negotiated     |-> negotiated])
            /\ response' = [status |-> 200, body |->
                   "GET OPTION FROM: " \o device_sn \o "\n" \o
                   "ErrorDelay=60\n" \o "Delay=10\n" \o "TransInterval=1\n" \o
                   "TransFlag=TransData AttLog\n" \o
                   "TimeZone=" \o SERVER_TIMEZONE \o "\n" \o
                   "Realtime=1\n" \o
                   "PushProtVer=" \o negotiated \o "\n"]
       ELSE /\ LAST_HANDSHAKES' = LAST_HANDSHAKES
            /\ response' = OkResponse
    /\ UNCHANGED <<store_vars, queue_vars, LAST_ICLOCK, LAST_GETREQUEST_POLLS,
                   LAST_PUSH_ACKS, attlog_counts>>

\* Mutation of IclockCdataGet: a handshake registers the terminal anew and
\* forgets the command it has not acknowledged.
IclockCdataGet_Reregisters(SN, options, pushver) ==
    LET device_sn      == QueryGet(SN, "unknown")
        opt            == QueryGet(options, "")
        device_pushver == QueryGet(pushver, "")
    IN
    /\ IF opt = "all" \/ device_pushver # ""
       THEN /\ LAST_HANDSHAKES' = RingAppend(LAST_HANDSHAKES,
                   [sn             |-> device_sn,
                    device_pushver |-> IF device_pushver # "" THEN device_pushver
                                       ELSE "(missing)",
                    negotiated     |-> SERVER_PUSH_PROTOCOL_VERSION])
            /\ WAITING_ACK_BY_SN' = DictPop(WAITING_ACK_BY_SN, device_sn)
            /\ response' = [status |-> 200, body |-> HandshakeBody(device_sn)]
       ELSE /\ LAST_HANDSHAKES' = LAST_HANDSHAKES
            /\ WAITING_ACK_BY_SN' = WAITING_ACK_BY_SN
            /\ response' = OkResponse
    /\ UNCHANGED <<store_vars, NEXT_CMD_ID, PENDING_CLEAR_BY_SN, LAST_ICLOCK,
                   LAST_GETREQUEST_POLLS, LAST_PUSH_ACKS, attlog_counts>>

\* Mutation of IclockCdataGet: any value of options asks for the
\* handshake.
IclockCdataGet_AnyOptions(SN, options, pushver) ==
    LET device_sn      == QueryGet(SN, "unknown")
        opt            == QueryGet(options, "")
        device_pushver == QueryGet(pushver, "")
    IN
    /\ IF opt # "" \/ device_pushver # ""
       THEN /\ LAST_HANDSHAKES' = RingAppend(LAST_HANDSHAKES,
                   [sn             |-> device_sn,
                    device_pushver |-> IF device_pushver # "" THEN device_pushver
                                       ELSE "(missing)",
                    negotiated     |-> SERVER_PUSH_PROTOCOL_VERSION])
            /\ response' = [status |-> 200, body |-> HandshakeBody(device_sn)]
       ELSE /\ LAST_HANDSHAKES' = LAST_HANDSHAKES
            /\ response' = OkResponse
    /\ UNCHANGED <<store_vars, queue_vars, LAST_ICLOCK, LAST_GETREQUEST_POLLS,
                   LAST_PUSH_ACKS, attlog_counts>>

IclockCdataGet(SN, options, pushver) ==
    LET device_sn      == QueryGet(SN, "unknown")
        opt            == QueryGet(options, "")
        device_pushver == QueryGet(pushver, "")
    IN
    /\ IF opt = "all" \/ device_pushver # ""
       THEN /\ LAST_HANDSHAKES' = RingAppend(LAST_HANDSHAKES,
                   [sn             |-> device_sn,
                    device_pushver |-> IF device_pushver # "" THEN device_pushver
                                       ELSE "(missing)",
                    negotiated     |-> SERVER_PUSH_PROTOCOL_VERSION])
            /\ response' = [status |-> 200, body |-> HandshakeBody(device_sn)]
       ELSE /\ LAST_HANDSHAKES' = LAST_HANDSHAKES
            /\ response' = OkResponse
    /\ UNCHANGED <<store_vars, queue_vars, LAST_ICLOCK, LAST_GETREQUEST_POLLS,
                   LAST_PUSH_ACKS, attlog_counts>>

\* Mutation of IclockCdataPost: the table name is compared without regard
\* to case.
IclockCdataPost_AnyCase(SN, table, body, commit_ok) ==
    LET device_sn  == QueryGet(SN, "unknown")
        table_name == QueryGet(table, "unknown")
        ack        == _extract_push_ack_fields(body)
    IN
    /\ LAST_ICLOCK' = RingAppend(LAST_ICLOCK,
           [method |-> "POST", SN |-> SN, table |-> table])
    /\ IF ack # None
       THEN /\ WAITING_ACK_BY_SN' = AckWaiting(WAITING_ACK_BY_SN, ack[1], device_sn)
            /\ LAST_PUSH_ACKS' = RingAppend(LAST_PUSH_ACKS, AckEntry(ack[1], device_sn))
       ELSE UNCHANGED <<WAITING_ACK_BY_SN, LAST_PUSH_ACKS>>
    /\ IF table_name \in {"ATTLOG", "attlog"}
       THEN \E txn \in AttlogLoop(attendance_logs, attendance_sessions,
                                  body.lines, device_sn) :
               /\ attlog_counts' = [stored_count |-> txn.stored_count,
                                    error_count  |-> txn.error_count]
               /\ IF commit_ok
                  THEN /\ attendance_logs' = CommitLogs(attendance_logs, txn)
                       /\ attendance_sessions' = CommitSessions(txn)
                  ELSE /\ attendance_logs' = RollbackLogs(attendance_logs, txn)
                       /\ attendance_sessions' =
                              RollbackSessions(attendance_sessions, txn)
               /\ response' = CommitResponse(txn, commit_ok)
       ELSE /\ UNCHANGED <<store_vars, attlog_counts>>
            /\ response' = OkResponse
    /\ UNCHANGED <<NEXT_CMD_ID, PENDING_CLEAR_BY_SN, LAST_HANDSHAKES,
                   LAST_GETREQUEST_POLLS>>

(***************************************************************************)
(* POST /iclock/cdata (biometric.py:140-282): the raw hit, the             *)
(* acknowledgement correlator, then the ATTLOG loop and its commit.        *)
(* commit_ok is whether db.commit() succeeds.                              *)
(***************************************************************************)
IclockCdataPost(SN, table, body, commit_ok) ==
    LET device_sn  == QueryGet(SN, "unknown")
        table_name == QueryGet(table, "unknown")
        ack        == _extract_push_ack_fields(body)
    IN
    /\ LAST_ICLOCK' = RingAppend(LAST_ICLOCK,
           [method |-> "POST", SN |-> SN, table |-> table])
    /\ IF ack # None
       THEN /\ WAITING_ACK_BY_SN' = AckWaiting(WAITING_ACK_BY_SN, ack[1], device_sn)
            /\ LAST_PUSH_ACKS' = RingAppend(LAST_PUSH_ACKS, AckEntry(ack[1], device_sn))
       ELSE UNCHANGED <<WAITING_ACK_BY_SN, LAST_PUSH_ACKS>>
    /\ IF table_name = "ATTLOG"
       THEN \E txn \in AttlogLoop(attendance_logs, attendance_sessions,
                                  body.lines, device_sn) :
               /\ attlog_counts' = [stored_count |-> txn.stored_count,
                                    error_count  |-> txn.error_count]
               /\ IF commit_ok
                  THEN /\ attendance_logs' = CommitLogs(attendance_logs, txn)
                       /\ attendance_sessions' = CommitSessions(txn)
                  ELSE /\ attendance_logs' = RollbackLogs(attendance_logs, txn)
                       /\ attendance_sessions' =
                              RollbackSessions(attendance_sessions, txn)
               /\ response' = CommitResponse(txn, commit_ok)
       ELSE /\ UNCHANGED <<store_vars, attlog_counts>>
            /\ response' = OkResponse
    /\ UNCHANGED <<NEXT_CMD_ID, PENDING_CLEAR_BY_SN, LAST_HANDSHAKES,
                   LAST_GETREQUEST_POLLS>>

(***************************************************************************)
(* GET /iclock/getrequest (biometric.py:511-532).                          *)
(***************************************************************************)
\* Mutation of iclock_getrequest: one flag for all terminals: a poll
\* dispatches when any serial has a command queued, and clears the queue.
iclock_getrequest_SharedFlag(SN) ==
    LET sn == QueryGet(SN, "")
    IN
    /\ LAST_GETREQUEST_POLLS' = RingAppend(LAST_GETREQUEST_POLLS, [sn |-> sn])
    /\ IF sn \notin DOMAIN WAITING_ACK_BY_SN /\ sn # ""
          /\ DOMAIN PENDING_CLEAR_BY_SN # {}
       THEN LET minted == _next_cmd_id(NEXT_CMD_ID)
            IN  /\ PENDING_CLEAR_BY_SN' = EmptyDict
                /\ NEXT_CMD_ID' = minted.NEXT_CMD_ID
                /\ WAITING_ACK_BY_SN' =
                       DictSet(WAITING_ACK_BY_SN, sn, minted.cmd_id)
                /\ response' = [status |-> 200,
                                body   |-> CommandPayload(minted.cmd_id)]
       ELSE /\ response' = OkResponse
            /\ UNCHANGED queue_vars
    /\ UNCHANGED <<store_vars, LAST_ICLOCK, LAST_HANDSHAKES, LAST_PUSH_ACKS,
                   attlog_counts>>

\* Mutation of iclock_getrequest: the pending flag is popped before the
\* waiting-ack entry is looked at.
iclock_getrequest_PopsFirst(SN) ==
    LET sn == QueryGet(SN, "")
    IN
    /\ LAST_GETREQUEST_POLLS' = RingAppend(LAST_GETREQUEST_POLLS, [sn |-> sn])
    /\ IF PollDispatches(sn, PENDING_CLEAR_BY_SN, WAITING_ACK_BY_SN)
       THEN LET minted == _next_cmd_id(NEXT_CMD_ID)
            IN  /\ PENDING_CLEAR_BY_SN' = DictPop(PENDING_CLEAR_BY_SN, sn)
                /\ NEXT_CMD_ID' = minted.NEXT_CMD_ID
                /\ WAITING_ACK_BY_SN' =
                       DictSet(WAITING_ACK_BY_SN, sn, minted.cmd_id)
                /\ response' = [status |-> 200,
                                body   |-> CommandPayload(minted.cmd_id)]
       ELSE /\ response' = OkResponse
            /\ PENDING_CLEAR_BY_SN' = DictPop(PENDING_CLEAR_BY_SN, sn)
            /\ UNCHANGED <<NEXT_CMD_ID, WAITING_ACK_BY_SN>>
    /\ UNCHANGED <<store_vars, LAST_ICLOCK, LAST_HANDSHAKES, LAST_PUSH_ACKS,
                   attlog_counts>>

iclock_getrequest(SN) ==
    LET sn == QueryGet(SN, "")
    IN
    /\ LAST_GETREQUEST_POLLS' = RingAppend(LAST_GETREQUEST_POLLS, [sn |-> sn])
    /\ IF PollDispatches(sn, PENDING_CLEAR_BY_SN, WAITING_ACK_BY_SN)
       THEN LET minted == _next_cmd_id(NEXT_CMD_ID)
            IN  /\ PENDING_CLEAR_BY_SN' = DictPop(PENDING_CLEAR_BY_SN, sn)
                /\ NEXT_CMD_ID' = minted.NEXT_CMD_ID
                /\ WAITING_ACK_BY_SN' =
                       DictSet(WAITING_ACK_BY_SN, sn, minted.cmd_id)
                /\ response' = [status |-> 200,
                                body   |-> CommandPayload(minted.cmd_id)]
       ELSE \* PENDING_CLEAR_BY_SN.pop(sn, False) is evaluated only when sn is
            \* not waiting and not empty, and then removes a flag that is set
            /\ response' = OkResponse
            /\ UNCHANGED queue_vars
    /\ UNCHANGED <<store_vars, LAST_ICLOCK, LAST_HANDSHAKES, LAST_PUSH_ACKS,
                   attlog_counts>>

(***************************************************************************)
(* POST /iclock/devicecmd (biometric.py:535-571).                          *)
(***************************************************************************)
iclock_devicecmd(SN, body) ==
    LET ack == _extract_push_ack_fields(body)
    IN
    /\ IF ack # None
       THEN /\ WAITING_ACK_BY_SN' =
                   AckWaiting(WAITING_ACK_BY_SN, ack[1], QueryGet(SN, ""))
            /\ LAST_PUSH_ACKS' =
                   RingAppend(LAST_PUSH_ACKS, AckEntry(ack[1], QueryGet(SN, "")))
       ELSE UNCHANGED <<WAITING_ACK_BY_SN, LAST_PUSH_ACKS>>
    /\ LAST_ICLOCK' = RingAppend(LAST_ICLOCK,
           [method |-> "POST", SN |-> SN, table |-> Absent])
    /\ response' = OkResponse
    /\ UNCHANGED <<store_vars, NEXT_CMD_ID, PENDING_CLEAR_BY_SN, LAST_HANDSHAKES,
                   LAST_GETREQUEST_POLLS, attlog_counts>>

(***************************************************************************)
(* POST /admin/device/{sn}/clear-attlog (biometric.py:574-578).            *)
(***************************************************************************)
\* Mutation of admin_clear_attlog: the command id is minted when the
\* command is enqueued.
admin_clear_attlog_MintsId(sn) ==
    /\ PENDING_CLEAR_BY_SN' = DictSet(PENDING_CLEAR_BY_SN, sn, TRUE)
    /\ NEXT_CMD_ID' = _next_cmd_id(NEXT_CMD_ID).NEXT_CMD_ID
    /\ response' = [status |-> 200,
                    body   |-> "{ok: true, sn: " \o sn \o ", queued: CLEAR LOG}"]
    /\ UNCHANGED <<store_vars, WAITING_ACK_BY_SN, ring_vars, attlog_counts>>

admin_clear_attlog(sn) ==
    /\ PENDING_CLEAR_BY_SN' = DictSet(PENDING_CLEAR_BY_SN, sn, TRUE)
    /\ response' = [status |-> 200,
                    body   |-> "{ok: true, sn: " \o sn \o ", queued: CLEAR LOG}"]
    /\ UNCHANGED <<store_vars, NEXT_CMD_ID, WAITING_ACK_BY_SN, ring_vars,
                   attlog_counts>>

(***************************************************************************)
(* The requests of the model.                                              *)
(***************************************************************************)
SNs == {"AAML1", "AAML2"}

\* The calls handled so far that left an entry in a ring buffer.
Requests == Len(LAST_ICLOCK) + Len(LAST_GETREQUEST_POLLS) + Len(LAST_HANDSHAKES)

\* Acknowledgement forms: a matching, a failed, a later, a non-integer id,
\* with and without a serial number in the body; and a body that is no
\* acknowledgement (no Return field).
AckForms ==
    { ("ID" :> "9001") @@ ("Return" :> "0") @@ ("CMD" :> "CLEAR LOG"),
      ("ID" :> "9001") @@ ("Return" :> "-1002") @@ ("CMD" :> "CLEAR LOG"),
      ("ID" :> "9002") @@ ("Return" :> "0") @@ ("CMD" :> "CLEAR LOG"),
      ("ID" :> "abc") @@ ("Return" :> "0") @@ ("CMD" :> "CLEAR LOG"),
      ("ID" :> "9001") @@ ("SN" :> "AAML2") @@ ("Return" :> "0") @@ ("CMD" :> "CLEAR LOG"),
      ("ID" :> "9002") @@ ("SN" :> "AAML2") @@ ("Return" :> "0") @@ ("CMD" :> "CLEAR LOG") }

AckBodies == {FormBody(f) : f \in AckForms} \cup {FormBody("ID" :> "9001")}

AckSNs == {"AAML1", Absent}

PollSNs == SNs \cup {Absent}

\* In the specifications below a call is one step: it arrives and runs to
\* its response at once.  Only a mailbox poll sends a command.
Enqueue ==
    /\ \E sn \in SNs : admin_clear_attlog(sn)
    /\ UNCHANGED <<dispatched, handshake_bodies, tasks>>

Poll ==
    /\ Requests < MaxRequests
    /\ \E SN \in PollSNs : iclock_getrequest(SN)
    /\ dispatched' = dispatched \o SentIds(response', NEXT_CMD_ID)
    /\ UNCHANGED <<handshake_bodies, tasks>>

AckDeviceCmd ==
    /\ Requests < MaxRequests
    /\ \E SN \in AckSNs, body \in AckBodies : iclock_devicecmd(SN, body)
    /\ UNCHANGED <<dispatched, handshake_bodies, tasks>>

AckCdata ==
    /\ Requests < MaxRequests
    /\ \E SN \in AckSNs, body \in AckBodies :
          IclockCdataPost(SN, Absent, body, TRUE)
    /\ UNCHANGED <<dispatched, handshake_bodies, tasks>>

NextQueue == Enqueue \/ Poll \/ AckDeviceCmd \/ AckCdata

SpecQueue == Init /\ [][NextQueue]_vars

\* A terminal that keeps polling and acknowledges what it is sent.  The
\* terminal AAML1 polls without end (a full poll buffer then stays as it
\* is); it acknowledges the id it waits for, on either path; now and then
\* it sends an acknowledgement with an id that is no integer.  The
\* administrator stops enqueuing after MaxRequests commands have gone out.
EnqueueSome ==
    /\ NEXT_CMD_ID < FIRST_CMD_ID + MaxRequests
    /\ \E sn \in SNs : admin_clear_attlog(sn)
    /\ UNCHANGED <<dispatched, handshake_bodies, tasks>>

KeepsPolling ==
    /\ iclock_getrequest("AAML1")
    /\ dispatched' = dispatched \o SentIds(response', NEXT_CMD_ID)
    /\ UNCHANGED <<handshake_bodies, tasks>>

DispatchedAck(sn) ==
    FormBody(("ID" :> PyStr(WAITING_ACK_BY_SN[sn])) @@ ("Return" :> "0") @@
             ("CMD" :> "CLEAR LOG"))

Acknowledges ==
    /\ "AAML1" \in DOMAIN WAITING_ACK_BY_SN
    /\ \/ iclock_devicecmd("AAML1", DispatchedAck("AAML1"))
       \/ IclockCdataPost("AAML1", Absent, DispatchedAck("AAML1"), TRUE)
    /\ UNCHANGED <<dispatched, handshake_bodies, tasks>>

AcknowledgesWrongly ==
    /\ Len(LAST_PUSH_ACKS) < MaxRequests
    /\ iclock_devicecmd("AAML1",
          FormBody(("ID" :> "abc") @@ ("Return" :> "0") @@ ("CMD" :> "CLEAR LOG")))
    /\ UNCHANGED <<dispatched, handshake_bodies, tasks>>

NextDelivery == EnqueueSome \/ KeepsPolling \/ Acknowledges \/ AcknowledgesWrongly

SpecDelivery ==
    /\ Init
    /\ [][NextDelivery]_vars
    /\ WF_vars(KeepsPolling)
    /\ WF_vars(Acknowledges)

\* The punches in the terminal's log, in the order it recorded them:
\* badge 8, then badge 7 at four times of day; the second entry is the
\* third one in another spelling (the same badge id and timestamp after
\* strip() and strptime(), another status), the last has a status that is
\* no integer.
DeviceLog ==
    << <<"8", "2024-01-10 08:00:00", "0", "1">>,
       <<"7 ", "2024-1-10 8:00:00", "1", "1">>,
       <<"7", "2024-01-10 08:00:00", "0", "1">>,
       <<"7", "2024-01-10 17:00:00", "1", "1">>,
       <<"7", "2024-01-11 08:00:00", "0", "15">>,
       <<"7", "2024-01-11 17:00:00", "1", "1">>,
       <<"8", "2024-01-10 17:00:00", "x", "1">> >>

\* The lines of log at the positions I, in log order.
Pick(log, I) ==
    LET F[k \in 0..Len(log)] ==
            IF k = 0 THEN <<>>
            ELSE IF k \in I THEN Append(F[k - 1], log[k]) ELSE F[k - 1]
    IN  F[Len(log)]

\* An upload carries up to MaxBatch lines of the log, in log order; the
\* terminal may send any of them again at any time.
AttlogBatches ==
    {Pick(DeviceLog, I) :
        I \in {J \in SUBSET (1..Len(DeviceLog)) : Cardinality(J) \in 1..MaxBatch}}

Upload ==
    /\ Requests < MaxRequests
    /\ \E lines \in AttlogBatches, commit_ok \in BOOLEAN :
          IclockCdataPost("AAML1", "ATTLOG", AttlogBody(lines), commit_ok)
    /\ UNCHANGED <<dispatched, handshake_bodies, tasks>>

NextIngest == Upload

SpecIngest == Init /\ [][NextIngest]_vars

\* The uploads of a terminal whose log holds four punches, each once: badge
\* 8 at 08:00 and badge 7 at 08:00, at 17:00 and at 08:00 of the next day.
PunchBatches ==
    {Pick(DeviceLog, I) :
        I \in {J \in SUBSET {1, 3, 4, 5} : Cardinality(J) \in 1..MaxBatch}}

UploadPunches ==
    /\ Requests < MaxRequests
    /\ \E lines \in PunchBatches, commit_ok \in BOOLEAN :
          IclockCdataPost("AAML1", "ATTLOG", AttlogBody(lines), commit_ok)
    /\ UNCHANGED <<dispatched, handshake_bodies, tasks>>

NextPunches == UploadPunches

SpecPunches == Init /\ [][NextPunches]_vars

\* The log of a terminal whose storage is damaged: the punches of badge 7
\* at 08:00 and 17:00 and of badge 8 at 08:00 are intact; around them are a
\* line cut after its third field, a datetime with minute 61, a status
\* that is no integer and an empty verification code.
DamagedLog ==
    << <<"7", "2024-01-10 08:00:00", "0">>,
       <<"7", "2024-01-10 08:00:00", "0", "1">>,
       <<"7", "2024-01-10 12:61:00", "1", "1">>,
       <<"8", "2024-01-10 08:00:00", "0", "1">>,
       <<"7", "2024-01-10 17:00:00", "1", "1">>,
       <<"8", "2024-01-10 17:00:00", "x", "1">>,
       <<"8", "2024-01-10 17:00:00", "1", "">> >>

DamagedBatches ==
    {Pick(DamagedLog, I) :
        I \in {J \in SUBSET (1..Len(DamagedLog)) : Cardinality(J) \in 1..MaxBatch}}

UploadDamaged ==
    /\ Requests < MaxRequests
    /\ \E lines \in DamagedBatches, commit_ok \in BOOLEAN :
          IclockCdataPost("AAML1", "ATTLOG", AttlogBody(lines), commit_ok)
    /\ UNCHANGED <<dispatched, handshake_bodies, tasks>>

NextErrors == UploadDamaged

SpecErrors == Init /\ [][NextErrors]_vars

\* GET /iclock/cdata: a plain discovery poll, a handshake with options=all
\* and handshakes with an older, the same and a newer push version; polls
\* with another value of options and with an empty pushver.
PushVers == {Absent, "", "2.2.14", "2.3.2", "3.0.1"}

Options == {Absent, "all", "ALL"}

Discover ==
    /\ Requests < MaxRequests
    /\ \E SN \in {"AAML1", Absent}, options \in Options, pushver \in PushVers :
          /\ IclockCdataGet(SN, options, pushver)
          /\ handshake_bodies' =
                 IF IsHandshake(options, pushver)
                 THEN handshake_bodies \cup {<<SN, response'.body>>}
                 ELSE handshake_bodies
    /\ UNCHANGED <<dispatched, tasks>>

Next == Enqueue \/ Poll \/ AckDeviceCmd \/ AckCdata \/ Upload \/ Discover

Spec == Init /\ [][Next]_vars

\* Discovery and handshake polls alone.
NextDiscover == Discover

SpecDiscover == Init /\ [][NextDiscover]_vars

\* The handshake next to the traffic whose state it must leave alone: a
\* terminal uploads one punch, is enqueued, polls its mailbox.
UploadPunch ==
    /\ Requests < MaxRequests
    /\ \E k \in 1..2 :
          IclockCdataPost("AAML1", "ATTLOG", AttlogBody(<<DeviceLog[k]>>), TRUE)
    /\ UNCHANGED <<dispatched, handshake_bodies, tasks>>

NextHandshake == Discover \/ Enqueue \/ Poll \/ UploadPunch

SpecHandshake == Init /\ [][NextHandshake]_vars

\* Every kind of call next to every other: a terminal registers or sends
\* a plain discovery poll, uploads a punch, posts lines to /iclock/cdata
\* under another table or none, polls its mailbox, acknowledges the id it
\* waits for on either path, or acknowledges an id that is no integer; the
\* administrator enqueues.
Tables == {Absent, "OPERLOG", "attlog"}

Register ==
    /\ Requests < MaxRequests
    /\ \E options \in {"all", Absent} :
          /\ IclockCdataGet("AAML1", options, Absent)
          /\ handshake_bodies' =
                 IF IsHandshake(options, Absent)
                 THEN handshake_bodies \cup {<<"AAML1", response'.body>>}
                 ELSE handshake_bodies
    /\ UNCHANGED <<dispatched, tasks>>

PostOtherTable ==
    /\ Requests < MaxRequests
    /\ \E table \in Tables :
          IclockCdataPost("AAML1", table, AttlogBody(<<DeviceLog[3]>>), TRUE)
    /\ UNCHANGED <<dispatched, handshake_bodies, tasks>>

AckSent ==
    /\ Requests < MaxRequests
    /\ \E sn \in DOMAIN WAITING_ACK_BY_SN :
          \/ iclock_devicecmd(sn, DispatchedAck(sn))
          \/ IclockCdataPost(sn, Absent, DispatchedAck(sn), TRUE)
    /\ UNCHANGED <<dispatched, handshake_bodies, tasks>>

NextServer ==
    \/ Enqueue
    \/ Poll
    \/ AckSent
    \/ AcknowledgesWrongly
    \/ Register
    \/ UploadPunch
    \/ PostOtherTable

SpecServer == Init /\ [][NextServer]_vars

(***************************************************************************)
(* The handlers step by step.  Every handler is an `async def`, so the     *)
(* server runs each call as a task of its one event loop: a task keeps the *)
(* loop from one await to the next, the loop takes up another task (or     *)
(* accepts another request) only while no task is between two awaits.      *)
(* The only await of a handler is `await request.body()`, its first line   *)
(* (biometric.py:104, 537); iclock_getrequest and admin_clear_attlog have  *)
(* none.  A step below is one line, or a few that touch no shared name.    *)
(***************************************************************************)
\* Mutation of AwaitPoints: the handlers run in threads (plain `def`
\* handlers), which are switched between any two lines.
AwaitPoints_Threads ==
    {"104", "512", "537", "575", "513", "521", "524", "96", "97", "526",
     "549", "551"}

\* The lines at which a call is suspended: before its first line and at its
\* `await request.body()`, which is its first line.
AwaitPoints == {"104", "512", "537", "575"}

\* The call is between two awaits: it has the event loop.
Holding(t) == tasks[t].pc \notin AwaitPoints \cup {"idle", "done"}

LoopFree == \A u \in DOMAIN tasks : ~Holding(u)

MayRun(t) == \A u \in DOMAIN tasks : u # t => ~Holding(u)

EntryLine(op) ==
    CASE op = "getrequest"   -> "512"
      [] op = "devicecmd"    -> "537"
      [] op = "clear_attlog" -> "575"
      [] op = "cdata"        -> "104"
      [] op = "cdata_get"    -> "104"

\* The server accepts a request and creates the task of its handler call;
\* calls are numbered in the order they arrive.  An upload notes the calls
\* that have not yet responded when it arrives (peers).
Arrive(t, req) ==
    /\ tasks[t].pc = "idle"
    /\ IF t = 1 THEN TRUE ELSE tasks[t - 1].pc # "idle"
    /\ LoopFree
    /\ tasks' = [tasks EXCEPT ![t] =
           [IdleTask EXCEPT !.op = req.op, !.pc = EntryLine(req.op),
                            !.SN = req.SN, !.body = req.body,
                            !.options = IF "options" \in DOMAIN req
                                        THEN req.options ELSE Absent,
                            !.pushver = IF "pushver" \in DOMAIN req
                                        THEN req.pushver ELSE Absent,
                            !.commit_ok = req.commit_ok,
                            !.peers =
                                IF req.op = "cdata"
                                THEN {u \in DOMAIN tasks :
                                         tasks[u].pc \notin {"idle", "done"}}
                                ELSE {}]]
    /\ UNCHANGED <<store_vars, queue_vars, ring_vars, response, attlog_counts,
                   dispatched, handshake_bodies>>

\* return Response(...)
Return(t, resp) ==
    /\ response' = resp
    /\ tasks' = [tasks EXCEPT ![t].pc = "done", ![t].response = resp]

Goto(t, line) == tasks' = [tasks EXCEPT ![t].pc = line]

\* iclock_getrequest, biometric.py:513-519
getrequest_513(t) ==
    /\ tasks[t].pc = "512" /\ MayRun(t)
    /\ LAST_GETREQUEST_POLLS' =
           RingAppend(LAST_GETREQUEST_POLLS, [sn |-> QueryGet(tasks[t].SN, "")])
    /\ tasks' = [tasks EXCEPT ![t].pc = "521", ![t].sn = QueryGet(tasks[t].SN, "")]
    /\ UNCHANGED <<store_vars, queue_vars, LAST_ICLOCK, LAST_HANDSHAKES,
                   LAST_PUSH_ACKS, response, attlog_counts, dispatched,
                   handshake_bodies>>

\* biometric.py:521-522
getrequest_521(t) ==
    /\ tasks[t].pc = "521" /\ MayRun(t)
    /\ IF tasks[t].sn \in DOMAIN WAITING_ACK_BY_SN
       THEN Return(t, OkResponse)
       ELSE Goto(t, "524") /\ UNCHANGED response
    /\ UNCHANGED <<store_vars, queue_vars, ring_vars, attlog_counts, dispatched,
                   handshake_bodies>>

\* biometric.py:524 and 531-532: PENDING_CLEAR_BY_SN.pop(sn, False) is one
\* call of the dict
getrequest_524(t) ==
    /\ tasks[t].pc = "524" /\ MayRun(t)
    /\ IF tasks[t].sn # "" /\ DictGet(PENDING_CLEAR_BY_SN, tasks[t].sn, FALSE)
       THEN /\ PENDING_CLEAR_BY_SN' = DictPop(PENDING_CLEAR_BY_SN, tasks[t].sn)
            /\ Goto(t, "96")
            /\ UNCHANGED response
       ELSE /\ Return(t, OkResponse)
            /\ UNCHANGED PENDING_CLEAR_BY_SN
    /\ UNCHANGED <<store_vars, NEXT_CMD_ID, WAITING_ACK_BY_SN, ring_vars,
                   attlog_counts, dispatched,
                   handshake_bodies>>

\* _next_cmd_id, biometric.py:96: cmd_id = NEXT_CMD_ID
next_cmd_id_96(t) ==
    /\ tasks[t].pc = "96" /\ MayRun(t)
    /\ tasks' = [tasks EXCEPT ![t].pc = "97",
                              ![t].cmd_id = _next_cmd_id(NEXT_CMD_ID).cmd_id]
    /\ UNCHANGED <<store_vars, queue_vars, ring_vars, response, attlog_counts,
                   dispatched, handshake_bodies>>

\* _next_cmd_id, biometric.py:97: NEXT_CMD_ID += 1
next_cmd_id_97(t) ==
    /\ tasks[t].pc = "97" /\ MayRun(t)
    /\ NEXT_CMD_ID' = _next_cmd_id(NEXT_CMD_ID).NEXT_CMD_ID
    /\ Goto(t, "526")
    /\ UNCHANGED <<store_vars, PENDING_CLEAR_BY_SN, WAITING_ACK_BY_SN, ring_vars,
                   response, attlog_counts, dispatched,
                   handshake_bodies>>

\* biometric.py:526-529
getrequest_526(t) ==
    /\ tasks[t].pc = "526" /\ MayRun(t)
    /\ WAITING_ACK_BY_SN' =
           DictSet(WAITING_ACK_BY_SN, tasks[t].sn, tasks[t].cmd_id)
    /\ Return(t, [status |-> 200, body |-> CommandPayload(tasks[t].cmd_id)])
    /\ dispatched' = Append(dispatched, tasks[t].cmd_id)
    /\ UNCHANGED <<store_vars, NEXT_CMD_ID, PENDING_CLEAR_BY_SN, ring_vars,
                   attlog_counts, handshake_bodies>>

\* iclock_devicecmd, biometric.py:537-548: the body has arrived; the
\* comparison of line 548
devicecmd_538(t) ==
    LET ack == _extract_push_ack_fields(tasks[t].body)
        sn  == QueryGet(tasks[t].SN, "")
    IN
    /\ tasks[t].pc = "537" /\ MayRun(t)
    /\ IF ack = None THEN Goto(t, "551")
       ELSE IF AckWaiting(WAITING_ACK_BY_SN, ack[1], sn) # WAITING_ACK_BY_SN
            THEN Goto(t, "549")
            ELSE Goto(t, "551")
    /\ UNCHANGED <<store_vars, queue_vars, ring_vars, response, attlog_counts,
                   dispatched, handshake_bodies>>

\* biometric.py:549: WAITING_ACK_BY_SN.pop(ack_sn, None)
devicecmd_549(t) ==
    LET ack == _extract_push_ack_fields(tasks[t].body)
        sn  == QueryGet(tasks[t].SN, "")
    IN
    /\ tasks[t].pc = "549" /\ MayRun(t)
    /\ WAITING_ACK_BY_SN' = DictPop(WAITING_ACK_BY_SN, AckSn(ack[1], sn))
    /\ Goto(t, "551")
    /\ UNCHANGED <<store_vars, NEXT_CMD_ID, PENDING_CLEAR_BY_SN, ring_vars,
                   response, attlog_counts, dispatched,
                   handshake_bodies>>

\* biometric.py:551-571
devicecmd_551(t) ==
    LET ack == _extract_push_ack_fields(tasks[t].body)
        sn  == QueryGet(tasks[t].SN, "")
    IN
    /\ tasks[t].pc = "551" /\ MayRun(t)
    /\ LAST_PUSH_ACKS' = IF ack = None THEN LAST_PUSH_ACKS
                         ELSE RingAppend(LAST_PUSH_ACKS, AckEntry(ack[1], sn))
    /\ LAST_ICLOCK' = RingAppend(LAST_ICLOCK,
           [method |-> "POST", SN |-> tasks[t].SN, table |-> Absent])
    /\ Return(t, OkResponse)
    /\ UNCHANGED <<store_vars, queue_vars, LAST_HANDSHAKES, LAST_GETREQUEST_POLLS,
                   attlog_counts, dispatched,
                   handshake_bodies>>

\* Mutation of clear_attlog_576: the flag is a toggle, a second enqueue
\* takes it back.
clear_attlog_576_Toggle(t) ==
    /\ tasks[t].pc = "575" /\ MayRun(t)
    /\ PENDING_CLEAR_BY_SN' =
           IF tasks[t].SN \in DOMAIN PENDING_CLEAR_BY_SN
           THEN DictPop(PENDING_CLEAR_BY_SN, tasks[t].SN)
           ELSE DictSet(PENDING_CLEAR_BY_SN, tasks[t].SN, TRUE)
    /\ Return(t, [status |-> 200,
                  body   |-> "{ok: true, sn: " \o tasks[t].SN \o ", queued: CLEAR LOG}"])
    /\ UNCHANGED <<store_vars, NEXT_CMD_ID, WAITING_ACK_BY_SN, ring_vars,
                   attlog_counts, dispatched,
                   handshake_bodies>>

\* admin_clear_attlog, biometric.py:576-578
clear_attlog_576(t) ==
    /\ tasks[t].pc = "575" /\ MayRun(t)
    /\ PENDING_CLEAR_BY_SN' = DictSet(PENDING_CLEAR_BY_SN, tasks[t].SN, TRUE)
    /\ Return(t, [status |-> 200,
                  body   |-> "{ok: true, sn: " \o tasks[t].SN \o ", queued: CLEAR LOG}"])
    /\ UNCHANGED <<store_vars, NEXT_CMD_ID, WAITING_ACK_BY_SN, ring_vars,
                   attlog_counts, dispatched,
                   handshake_bodies>>

\* iclock_cdata, biometric.py:105-282: the body has arrived; no await
\* follows, the rest of the handler is one turn of the loop
cdata_105(t) ==
    /\ tasks[t].op = "cdata"
    /\ tasks[t].pc = "104" /\ MayRun(t)
    /\ IclockCdataPost(tasks[t].SN, "ATTLOG", tasks[t].body, tasks[t].commit_ok)
    /\ tasks' = [tasks EXCEPT ![t].pc = "done", ![t].response = response']
    /\ UNCHANGED <<dispatched, handshake_bodies>>

\* iclock_cdata, biometric.py:105-138: the GET branch
cdata_get_105(t) ==
    /\ tasks[t].op = "cdata_get"
    /\ tasks[t].pc = "104" /\ MayRun(t)
    /\ IclockCdataGet(tasks[t].SN, tasks[t].options, tasks[t].pushver)
    /\ tasks' = [tasks EXCEPT ![t].pc = "done", ![t].response = response']
    /\ handshake_bodies' =
           IF IsHandshake(tasks[t].options, tasks[t].pushver)
           THEN handshake_bodies \cup {<<tasks[t].SN, response'.body>>}
           ELSE handshake_bodies
    /\ UNCHANGED dispatched

\* The calls of the command queue: polls and enqueues for two terminals,
\* the acknowledgement of the first command by AAML1.
QueueCalls ==
    {[op |-> "getrequest", SN |-> SN, body |-> EmptyBody, commit_ok |-> TRUE]
        : SN \in SNs} \cup
    {[op |-> "clear_attlog", SN |-> sn, body |-> EmptyBody, commit_ok |-> TRUE]
        : sn \in SNs} \cup
    {[op |-> "devicecmd", SN |-> "AAML1", commit_ok |-> TRUE,
      body |-> FormBody(("ID" :> id) @@ ("Return" :> "0") @@ ("CMD" :> "CLEAR LOG"))]
        : id \in {"9001"}}

NextQueueTasks ==
    \E t \in 1..MaxTasks :
        \/ \E req \in QueueCalls : Arrive(t, req)
        \/ getrequest_513(t)
        \/ getrequest_521(t)
        \/ getrequest_524(t)
        \/ next_cmd_id_96(t)
        \/ next_cmd_id_97(t)
        \/ getrequest_526(t)
        \/ devicecmd_538(t)
        \/ devicecmd_549(t)
        \/ devicecmd_551(t)
        \/ clear_attlog_576(t)

SpecQueueTasks == Init /\ [][NextQueueTasks]_vars

\* Uploads of the terminal AAML1 that may be in progress together.
UploadCalls ==
    {[op |-> "cdata", SN |-> "AAML1", body |-> AttlogBody(lines),
      commit_ok |-> commit_ok]
        : lines \in AttlogBatches, commit_ok \in BOOLEAN}

NextUploadTasks ==
    \E t \in 1..MaxUploads :
        \/ \E req \in UploadCalls : Arrive(t, req)
        \/ cdata_105(t)

SpecUploadTasks == Init /\ [][NextUploadTasks]_vars

(***************************************************************************)
(* The ring buffers of a server that has run for a while.  Its rings hold  *)
(* the entries of n earlier calls that left nothing else behind: mailbox   *)
(* polls of terminals with nothing queued, handshakes without a serial     *)
(* number, acknowledgements of ids nobody waits for.  The calls that       *)
(* follow come one after the other.                                        *)
(***************************************************************************)
Filler(n, odd, even) == [i \in 1..n |-> IF i % 2 = 1 THEN odd ELSE even]

InitRing ==
    /\ attendance_logs = <<>>
    /\ attendance_sessions = <<>>
    /\ NEXT_CMD_ID = FIRST_CMD_ID
    /\ PENDING_CLEAR_BY_SN = EmptyDict
    /\ WAITING_ACK_BY_SN = EmptyDict
    /\ \E n \in {RING_CAPACITY - 1, RING_CAPACITY} :
          /\ LAST_ICLOCK =
                 Filler(n, [method |-> "POST", SN |-> "AAML2", table |-> Absent],
                           [method |-> "POST", SN |-> Absent, table |-> Absent])
          /\ LAST_HANDSHAKES =
                 Filler(n, [sn |-> "unknown", device_pushver |-> "(missing)",
                            negotiated |-> SERVER_PUSH_PROTOCOL_VERSION],
                           [sn |-> "unknown", device_pushver |-> "2.2.14",
                            negotiated |-> SERVER_PUSH_PROTOCOL_VERSION])
          /\ LAST_GETREQUEST_POLLS = Filler(n, [sn |-> "AAML2"], [sn |-> ""])
          /\ LAST_PUSH_ACKS =
                 Filler(n, [sn |-> "AAML2", id |-> "9002", return |-> "0",
                            cmd |-> "CLEAR LOG"],
                           [sn |-> "", id |-> "abc", return |-> "0",
                            cmd |-> "CLEAR LOG"])
    /\ response = OkResponse
    /\ attlog_counts = [stored_count |-> 0, error_count |-> 0]
    /\ dispatched = <<>>
    /\ handshake_bodies = {<<Absent, HandshakeBody("unknown")>>}
    /\ tasks = [t \in 1..MaxTasks |-> IdleTask]

\* A request arrives when every earlier call has responded.
ArriveAlone(t, req) ==
    /\ \A u \in DOMAIN tasks : tasks[u].pc \in {"idle", "done"}
    /\ Arrive(t, req)

\* The calls of terminal AAML1 that follow: a mailbox poll, an
\* acknowledgement, an upload of one punch whose commit succeeds or fails,
\* two handshakes and a plain discovery poll.
RingCalls ==
    {[op |-> "getrequest", SN |-> "AAML1", body |-> EmptyBody, commit_ok |-> TRUE],
     [op |-> "devicecmd", SN |-> "AAML1", commit_ok |-> TRUE,
      body |-> FormBody(("ID" :> "9001") @@ ("Return" :> "0") @@ ("CMD" :> "CLEAR LOG"))]}
    \cup
    {[op |-> "cdata", SN |-> "AAML1", body |-> AttlogBody(<<DeviceLog[1]>>),
      commit_ok |-> commit_ok] : commit_ok \in BOOLEAN}
    \cup
    {[op |-> "cdata_get", SN |-> "AAML1", body |-> EmptyBody, commit_ok |-> TRUE,
      options |-> q[1], pushver |-> q[2]]
        : q \in {<<"all", Absent>>, <<Absent, "3.0.1">>, <<Absent, Absent>>}}

NextRing ==
    \E t \in 1..MaxTasks :
        \/ \E req \in RingCalls : ArriveAlone(t, req)
        \/ getrequest_513(t)
        \/ getrequest_521(t)
        \/ getrequest_524(t)
        \/ devicecmd_538(t)
        \/ devicecmd_551(t)
        \/ cdata_105(t)
        \/ cdata_get_105(t)

SpecRing == InitRing /\ [][NextRing]_vars

(***************************************************************************)
(* Properties of the ingestor and the pairing engine.                      *)
(***************************************************************************)
Badges == {"7", "8"}

\* The rows of a table that belong to one badge, in id order.
LogsOf(pin) == SelectSeq(attendance_logs, LAMBDA row : row.pin = pin)
SessionsOf(pin) == SelectSeq(attendance_sessions, LAMBDA row : row.pin = pin)

OpenSessionsOf(pin) ==
    {i \in DOMAIN attendance_sessions :
        attendance_sessions[i].pin = pin /\ attendance_sessions[i].check_out = None}

StrictlyIncreasing(rows) ==
    \A i \in 1..(Len(rows) - 1) : rows[i].timestamp < rows[i + 1].timestamp

\* C1: after any sequence of ATTLOG uploads no two stored AttendanceLog
\* events share the same (badge id, timestamp) pair.
C1_UniqueBadgeTimestamp ==
    \A i, j \in DOMAIN attendance_logs :
        (/\ attendance_logs[i].pin = attendance_logs[j].pin
         /\ attendance_logs[i].timestamp = attendance_logs[j].timestamp) => i = j

\* C2: after any sequence of ATTLOG uploads every badge id has at most one
\* open AttendanceSession.
C2_AtMostOneOpenSession ==
    \A pin \in Badges : Cardinality(OpenSessionsOf(pin)) <= 1

\* C3: pairing alternation.  For a badge whose n accepted events have
\* strictly increasing timestamps t1 < ... < tn in the order they were
\* accepted, however they were grouped into uploads, the badge has
\* ceil(n/2) sessions, session k runs from t(2k-1) to t(2k), and the last
\* session is open exactly if n is odd.
C3_PairingAlternation ==
    \A pin \in Badges :
        LET events   == LogsOf(pin)
            sessions == SessionsOf(pin)
            n        == Len(events)
        IN  StrictlyIncreasing(events) =>
              /\ Len(sessions) = (n + 1) \div 2
              /\ \A k \in 1..Len(sessions) :
                    /\ 2 * k - 1 <= n
                    /\ sessions[k].check_in = events[2 * k - 1].timestamp
                    /\ sessions[k].check_out =
                          IF 2 * k <= n THEN Some(events[2 * k].timestamp) ELSE None
                    /\ sessions[k].status = IF 2 * k <= n THEN "closed" ELSE "open"

\* The body "7\t2024-01-10 08:00:00\t0\t1\n7\t2024-01-10 17:00:00\t1\t1\n".
ExampleLines ==
    << <<"7", "2024-01-10 08:00:00", "0", "1">>,
       <<"7", "2024-01-10 17:00:00", "1", "1">> >>

\* C4: from an empty store, one POST with table=ATTLOG and the two example
\* lines of badge 7 (08:00:00 then 17:00:00 of the same day) leaves two
\* stored events and exactly one session of badge 7, closed, from 08:00 to
\* 17:00.
C4_ExampleUpload ==
    [][(/\ attendance_logs = <<>>
        /\ attendance_sessions = <<>>
        /\ IclockCdataPost("AAML1", "ATTLOG", AttlogBody(ExampleLines), TRUE))
       => (/\ Len(attendance_logs') = 2
           /\ attendance_sessions' =
                 << [pin |-> "7", check_in |-> 28800,
                     check_out |-> Some(61200), status |-> "closed"] >>)]_vars

\* C5: idempotence of upload.  From every store the uploads reach and for
\* every batch, when the batch is submitted twice in succession and both
\* commits succeed, the second submission stores no event: the table has
\* as many events after it as after the first.
C5_UploadIdempotent ==
    \A lines \in AttlogBatches :
        \A first \in AttlogLoop(attendance_logs, attendance_sessions, lines, "AAML1") :
            LET logs_once     == CommitLogs(attendance_logs, first)
                sessions_once == CommitSessions(first)
            IN  \A second \in AttlogLoop(logs_once, sessions_once, lines, "AAML1") :
                    /\ second.stored_count = 0
                    /\ Len(CommitLogs(logs_once, second)) = Len(logs_once)

\* A batch that stored events has been submitted again, and the second
\* submission stored nothing.
C5_Witness ==
    /\ Len(LAST_ICLOCK) = 2
    /\ Len(attendance_logs) = 2
    /\ response = OkResponse
    /\ attlog_counts = [stored_count |-> 0, error_count |-> 0]

(***************************************************************************)
(* Properties of the command queue and the acknowledgement correlator.     *)
(***************************************************************************)
\* The ids a behaviour of the model can mint.
CmdIds == FIRST_CMD_ID..(FIRST_CMD_ID + MaxRequests + 1)

\* "C:<id>:CLEAR LOG\n"
Framed(id) == "C:" \o ToString(id) \o ":CLEAR LOG\n"

\* The step handles an acknowledgement: it is recorded in the ack buffer.
AckArrived == LAST_PUSH_ACKS' # LAST_PUSH_ACKS

\* A body with the fields that make it an acknowledgement.
IsAck(form) == {"ID", "Return"} \subseteq DOMAIN form

\* The serial number an acknowledgement names: the SN field of the body
\* when it is not empty, otherwise the SN query parameter.
AckTarget(SN, form) == IF DictGet(form, "SN", "") # "" THEN form["SN"] ELSE SN

\* The ID of the acknowledgement is the id the named serial is waiting for.
IdMatches(SN, form) ==
    /\ AckTarget(SN, form) \in DOMAIN WAITING_ACK_BY_SN
    /\ PyInt(form["ID"]) = Some(WAITING_ACK_BY_SN[AckTarget(SN, form)])

\* The step is the acknowledgement body, sent with query parameter SN to
\* /iclock/devicecmd or posted to /iclock/cdata.  (The conjuncts before the
\* last follow from it: they spare evaluating the handlers on the steps
\* that are no acknowledgement or that record another body.)
AckStep(SN, body) ==
    /\ AckArrived
    /\ LAST_PUSH_ACKS'[Len(LAST_PUSH_ACKS')].id = body.form["ID"]
    /\ LAST_PUSH_ACKS'[Len(LAST_PUSH_ACKS')].return = DictGet(body.form, "Return", "")
    /\ \/ iclock_devicecmd(SN, body)
       \/ IclockCdataPost(SN, Absent, body, TRUE)

\* C6: command single-delivery.  A poll for a serial S that has the
\* pending flag and no waiting-ack entry returns C:<id>:CLEAR LOG; from
\* then on, as long as no acknowledgement arrives, S keeps its waiting-ack
\* entry and every poll for S returns exactly OK and mints no id.
C6_SingleDelivery ==
    [][\A S \in SNs :
         /\ (/\ S \in DOMAIN PENDING_CLEAR_BY_SN
             /\ S \notin DOMAIN WAITING_ACK_BY_SN
             /\ iclock_getrequest(S))
            => \E id \in CmdIds :
                  /\ response' = [status |-> 200, body |-> Framed(id)]
                  /\ S \in DOMAIN WAITING_ACK_BY_SN'
                  /\ WAITING_ACK_BY_SN'[S] = id
         /\ (S \in DOMAIN WAITING_ACK_BY_SN /\ ~AckArrived)
            => /\ S \in DOMAIN WAITING_ACK_BY_SN'
               /\ WAITING_ACK_BY_SN'[S] = WAITING_ACK_BY_SN[S]
               /\ iclock_getrequest(S) =>
                     /\ response' = [status |-> 200, body |-> "OK\n"]
                     /\ NEXT_CMD_ID' = NEXT_CMD_ID]_vars

\* One enqueue for AAML1, then two polls and no acknowledgement: the
\* command went out once, with id 9001, and the second poll got OK.
C6_Witness ==
    /\ LAST_GETREQUEST_POLLS = <<[sn |-> "AAML1"], [sn |-> "AAML1"]>>
    /\ LAST_PUSH_ACKS = <<>>
    /\ "AAML1" \in DOMAIN WAITING_ACK_BY_SN
    /\ WAITING_ACK_BY_SN["AAML1"] = 9001
    /\ NEXT_CMD_ID = 9002
    /\ "AAML1" \notin DOMAIN PENDING_CLEAR_BY_SN
    /\ response = [status |-> 200, body |-> "OK\n"]

\* C7: ack correlation.  An acknowledgement whose ID is not the id its
\* serial number is waiting for (another id, no integer, or a serial with
\* no waiting-ack entry), on either path, leaves the waiting-ack map, the
\* pending flags and the command-id counter unchanged.
C7_AckCorrelation ==
    [][\A SN \in AckSNs, body \in AckBodies :
         (IsAck(body.form) /\ ~IdMatches(SN, body.form) /\ AckStep(SN, body))
         => UNCHANGED <<WAITING_ACK_BY_SN, PENDING_CLEAR_BY_SN, NEXT_CMD_ID>>]_vars

\* AAML1 was sent command 9001 and an acknowledgement of id 9002 was
\* recorded for AAML1: the entry is still there.
C7_Witness ==
    /\ Len(LAST_GETREQUEST_POLLS) = 1
    /\ Len(LAST_PUSH_ACKS) = 1
    /\ LAST_PUSH_ACKS[1].sn = "AAML1"
    /\ LAST_PUSH_ACKS[1].id = "9002"
    /\ "AAML1" \in DOMAIN WAITING_ACK_BY_SN
    /\ WAITING_ACK_BY_SN["AAML1"] = 9001

\* C8: an acknowledgement whose ID is the id its serial number is waiting
\* for removes that serial's waiting-ack entry, whatever its Return field,
\* and is answered OK.
C8_MatchingAckClears ==
    [][\A SN \in AckSNs, body \in AckBodies :
         (IsAck(body.form) /\ IdMatches(SN, body.form) /\ AckStep(SN, body))
         => /\ AckTarget(SN, body.form) \notin DOMAIN WAITING_ACK_BY_SN'
            /\ response' = [status |-> 200, body |-> "OK\n"]]_vars

\* AAML1 was sent command 9001 by the only poll and acknowledged it with
\* the failure code -1002: nothing is waiting any more.
C8_Witness ==
    /\ LAST_GETREQUEST_POLLS = <<[sn |-> "AAML1"]>>
    /\ NEXT_CMD_ID = 9002
    /\ LAST_PUSH_ACKS =
          <<[sn |-> "AAML1", id |-> "9001", return |-> "-1002", cmd |-> "CLEAR LOG"]>>
    /\ DOMAIN WAITING_ACK_BY_SN = {}
    /\ response = [status |-> 200, body |-> "OK\n"]

\* C9: a mailbox poll for a serial number with no pending flag and no
\* waiting-ack entry returns exactly "OK\n" and leaves the pending flags,
\* the waiting-ack map and the command-id counter unchanged.
C9_IdlePoll ==
    [][\A SN \in PollSNs :
         (/\ QueryGet(SN, "") \notin DOMAIN PENDING_CLEAR_BY_SN
          /\ QueryGet(SN, "") \notin DOMAIN WAITING_ACK_BY_SN
          /\ iclock_getrequest(SN))
         => /\ response' = [status |-> 200, body |-> "OK\n"]
            /\ UNCHANGED <<PENDING_CLEAR_BY_SN, WAITING_ACK_BY_SN, NEXT_CMD_ID>>]_vars

\* AAML2 polled while only AAML1 had a command queued.
C9_Witness ==
    /\ LAST_GETREQUEST_POLLS = <<[sn |-> "AAML2"]>>
    /\ DOMAIN PENDING_CLEAR_BY_SN = {"AAML1"}
    /\ DOMAIN WAITING_ACK_BY_SN = {}
    /\ NEXT_CMD_ID = 9001
    /\ response = [status |-> 200, body |-> "OK\n"]

\* C10: a mailbox poll for serial S with the pending flag set and no
\* waiting-ack entry mints a fresh command id (not below the counter, so
\* never issued before, and below the counter afterwards, so never issued
\* again), sets waiting-ack[S] to it, clears the pending flag of S and
\* answers C:<id>:CLEAR LOG with the same id.
C10_DispatchingPoll ==
    [][\A S \in SNs :
         (/\ S \in DOMAIN PENDING_CLEAR_BY_SN
          /\ PENDING_CLEAR_BY_SN[S]
          /\ S \notin DOMAIN WAITING_ACK_BY_SN
          /\ iclock_getrequest(S))
         => \E id \in CmdIds :
               /\ id >= NEXT_CMD_ID
               /\ id < NEXT_CMD_ID'
               /\ \A T \in DOMAIN WAITING_ACK_BY_SN : WAITING_ACK_BY_SN[T] # id
               /\ WAITING_ACK_BY_SN' = DictSet(WAITING_ACK_BY_SN, S, id)
               /\ PENDING_CLEAR_BY_SN' = DictPop(PENDING_CLEAR_BY_SN, S)
               /\ response' = [status |-> 200, body |-> Framed(id)]]_vars

\* AAML2 was sent the second command, 9002, while AAML1 still waits for
\* the acknowledgement of 9001.
C10_Witness ==
    /\ DOMAIN WAITING_ACK_BY_SN = {"AAML1", "AAML2"}
    /\ WAITING_ACK_BY_SN["AAML1"] = 9001
    /\ WAITING_ACK_BY_SN["AAML2"] = 9002
    /\ DOMAIN PENDING_CLEAR_BY_SN = {}
    /\ NEXT_CMD_ID = 9003
    /\ response = [status |-> 200, body |-> "C:9002:CLEAR LOG\n"]

(***************************************************************************)
(* Error handling of the ingestor.                                         *)
(***************************************************************************)
\* A line the ingestor accepts: four fields or more, a datetime of the
\* fixed format, an integer status and an integer verification code.
WellFormed(line) ==
    /\ Len(line) >= 4
    /\ parse_iclock_datetime(Strip(line[2])) # None
    /\ PyInt(Strip(line[3])) # None
    /\ PyInt(Strip(line[4])) # None

\* The (badge id, timestamp) pair of a well-formed line is not in the table.
NotYetStored(line) ==
    \A i \in DOMAIN attendance_logs :
        \/ attendance_logs[i].pin # Strip(line[1])
        \/ Some(attendance_logs[i].timestamp) # parse_iclock_datetime(Strip(line[2]))

C12_AllOrNothing ==
    [][\A lines \in DamagedBatches :
         IclockCdataPost("AAML1", "ATTLOG", AttlogBody(lines), FALSE)
         => /\ attendance_logs' = attendance_logs
            /\ attendance_sessions' = attendance_sessions
            /\ response' = [status |-> 500, body |-> "ERROR\n"]]_vars

\* One event and its open session are stored; a second upload whose loop
\* accepted two further events failed to commit, and the tables still hold
\* the one event and the one open session.
C12_Witness ==
    /\ Len(LAST_ICLOCK) = 2
    /\ response = [status |-> 500, body |-> "ERROR\n"]
    /\ attlog_counts.stored_count = 2
    /\ Len(attendance_logs) = 1
    /\ Len(attendance_sessions) = 1
    /\ attendance_sessions[1].status = "open"

\* C13: a malformed line is rejected on its own.  An upload that commits
\* adds exactly the well-formed, not-yet-stored lines of the body as
\* events, in body order, counts one error per malformed line, and leaves
\* the two tables as the same body without its malformed lines leaves them.
C13_MalformedLineRejectedAlone ==
    [][\A lines \in DamagedBatches :
         IclockCdataPost("AAML1", "ATTLOG", AttlogBody(lines), TRUE)
         => LET good  == SelectSeq(lines, WellFormed)
                fresh == SelectSeq(good, NotYetStored)
                added == SubSeq(attendance_logs', Len(attendance_logs) + 1,
                                Len(attendance_logs'))
            IN  /\ Len(added) = Len(fresh)
                /\ \A i \in DOMAIN added : added[i].raw_data = fresh[i]
                /\ attlog_counts'.error_count = Len(lines) - Len(good)
                /\ \E txn \in AttlogLoop(attendance_logs, attendance_sessions,
                                         good, "AAML1") :
                      /\ attendance_logs' = CommitLogs(attendance_logs, txn)
                      /\ attendance_sessions' = CommitSessions(txn)]_vars

\* The first upload carried a malformed line and the 17:00 punch of badge
\* 7: the punch is stored and opened a session, the other line is counted.
C13_Witness ==
    /\ Len(LAST_ICLOCK) = 1
    /\ attlog_counts = [stored_count |-> 1, error_count |-> 1]
    /\ Len(attendance_logs) = 1
    /\ attendance_logs[1].raw_data = <<"7", "2024-01-10 17:00:00", "1", "1">>
    /\ attendance_sessions =
          << [pin |-> "7", check_in |-> 61200, check_out |-> None, status |-> "open"] >>
    /\ response = [status |-> 200, body |-> "OK\n"]

(***************************************************************************)
(* Concurrent calls.                                                       *)
(***************************************************************************)
\* The (badge id, timestamp) pairs of the well-formed lines of a body.
Pairs(body) ==
    {<<Strip(body.lines[i][1]), parse_iclock_datetime(Strip(body.lines[i][2]))[1]>>
        : i \in {j \in DOMAIN body.lines : WellFormed(body.lines[j])}}

RowsOf(pair) ==
    {i \in DOMAIN attendance_logs :
        attendance_logs[i].pin = pair[1] /\ attendance_logs[i].timestamp = pair[2]}

\* Two calls were in progress together: one arrived before the other had
\* responded.
Concurrent(t, u) == t \in tasks[u].peers \/ u \in tasks[t].peers

\* C14: two concurrent ATTLOG uploads that carry a line of the same (badge
\* id, timestamp) pair, run in any order, leave at most one stored event
\* with that pair, and each upload whose commit succeeds is answered OK
\* (the insert that loses is a skip, not an error).
C14_ConcurrentUploadsStoreOnce ==
    \A t, u \in 1..MaxUploads :
        (/\ t # u
         /\ tasks[t].op = "cdata" /\ tasks[t].pc = "done"
         /\ tasks[u].op = "cdata" /\ tasks[u].pc = "done"
         /\ Concurrent(t, u))
        => /\ \A pair \in Pairs(tasks[t].body) \cap Pairs(tasks[u].body) :
                 Cardinality(RowsOf(pair)) <= 1
           /\ tasks[t].commit_ok => tasks[t].response = [status |-> 200, body |-> "OK\n"]
           /\ tasks[u].commit_ok => tasks[u].response = [status |-> 200, body |-> "OK\n"]

\* A call is between its first read and its last write of the pending
\* flags, the waiting-ack map and the command-id counter.
InQueueSection(t) == tasks[t].pc \in {"524", "96", "97", "526", "549"}

\* A poll that took the pending flag of its serial number.
Dispatching(t) ==
    /\ tasks[t].op = "getrequest"
    /\ tasks[t].pc = "96" \/ tasks[t].cmd_id # 0

DispatchesFor(S) == {t \in DOMAIN tasks : Dispatching(t) /\ tasks[t].sn = S}

EnqueuesFor(S) ==
    {t \in DOMAIN tasks :
        tasks[t].op = "clear_attlog" /\ tasks[t].SN = S /\ tasks[t].pc = "done"}

\* C15: under every interleaving of concurrent polls, enqueues and
\* acknowledgements, at most one call at a time is between its first read
\* and its last write of the queue state; the polls for a serial number
\* dispatch no more commands than were enqueued for it (two concurrent
\* polls with one pending command dispatch it at most once); and no two
\* dispatching polls hold the same command id.
C15_QueueMutualExclusion ==
    /\ Cardinality({t \in DOMAIN tasks : InQueueSection(t)}) <= 1
    /\ \A S \in SNs : Cardinality(DispatchesFor(S)) <= Cardinality(EnqueuesFor(S))
    /\ \A t, u \in DOMAIN tasks :
          (t # u /\ tasks[t].cmd_id # 0 /\ tasks[u].cmd_id # 0)
          => tasks[t].cmd_id # tasks[u].cmd_id

\* One enqueue for AAML1 and two polls for AAML1 in progress together:
\* the poll that arrived last (call 3) was served first and was sent
\* command 9001, the poll that arrived before it was answered OK.
C15_Witness ==
    /\ tasks[1].op = "clear_attlog" /\ tasks[1].SN = "AAML1" /\ tasks[1].pc = "done"
    /\ tasks[2].op = "getrequest" /\ tasks[2].sn = "AAML1" /\ tasks[2].pc = "done"
    /\ tasks[3].op = "getrequest" /\ tasks[3].sn = "AAML1" /\ tasks[3].pc = "done"
    /\ tasks[4].pc = "idle"
    /\ tasks[3].response = [status |-> 200, body |-> "C:9001:CLEAR LOG\n"]
    /\ tasks[2].response = [status |-> 200, body |-> "OK\n"]
    /\ dispatched = <<9001>>

(***************************************************************************)
(* Further properties of the command queue.                                *)
(***************************************************************************)
\* C16: the command ids sent in C:<id>: responses are strictly increasing
\* in the order they were sent, whatever serial numbers they went to, so no
\* id is sent twice.
C16_DispatchedIdsIncrease ==
    \A i, j \in DOMAIN dispatched : i < j => dispatched[i] < dispatched[j]

\* Two commands were sent, to two terminals: 9001 and then 9002.
C16_Witness ==
    /\ dispatched = <<9001, 9002>>
    /\ LAST_GETREQUEST_POLLS = <<[sn |-> "AAML2"], [sn |-> "AAML1"]>>
    /\ WAITING_ACK_BY_SN = ("AAML2" :> 9001) @@ ("AAML1" :> 9002)

\* C17: enqueue is idempotent.  An enqueue for a serial number that is
\* already pending leaves the pending flags, the waiting-ack map and the
\* counter as they are; the poll that takes the flag removes it, however
\* many enqueues set it, and sends one command.
C17_EnqueueIdempotent ==
    [][\A t \in DOMAIN tasks :
         /\ (/\ tasks[t].SN \in DOMAIN PENDING_CLEAR_BY_SN
             /\ clear_attlog_576(t))
            => UNCHANGED <<PENDING_CLEAR_BY_SN, WAITING_ACK_BY_SN, NEXT_CMD_ID>>
         /\ getrequest_524(t)
            => /\ tasks[t].sn \notin DOMAIN PENDING_CLEAR_BY_SN'
               /\ UNCHANGED dispatched
         /\ getrequest_526(t) => Len(dispatched') = Len(dispatched) + 1]_vars

\* Two enqueues for AAML1, then two polls: one command was sent, 9001, the
\* flag is gone and the second poll was answered OK.
C17_Witness ==
    /\ tasks[1].op = "clear_attlog" /\ tasks[1].SN = "AAML1" /\ tasks[1].pc = "done"
    /\ tasks[2].op = "clear_attlog" /\ tasks[2].SN = "AAML1" /\ tasks[2].pc = "done"
    /\ tasks[3].op = "getrequest" /\ tasks[3].sn = "AAML1" /\ tasks[3].pc = "done"
    /\ tasks[4].op = "getrequest" /\ tasks[4].sn = "AAML1" /\ tasks[4].pc = "done"
    /\ LAST_GETREQUEST_POLLS = <<[sn |-> "AAML1"], [sn |-> "AAML1"]>>
    /\ dispatched = <<9001>>
    /\ DOMAIN PENDING_CLEAR_BY_SN = {}

\* The step records an acknowledgement for serial S whose ID is the id S
\* is waiting for.
MatchingAckRecorded(S) ==
    /\ AckArrived
    /\ LAST_PUSH_ACKS'[Len(LAST_PUSH_ACKS')].sn = S
    /\ PyInt(LAST_PUSH_ACKS'[Len(LAST_PUSH_ACKS')].id) = Some(WAITING_ACK_BY_SN[S])

\* C18: no expiry.  A waiting-ack entry of serial S keeps its id through
\* every step that is not an acknowledgement of exactly that id for S
\* (polls, enqueues, other acknowledgements); while S has the entry, every
\* poll for S is answered OK, mints no id and sends no command.
C18_NoExpiry ==
    [][\A S \in SNs :
         S \in DOMAIN WAITING_ACK_BY_SN
         => /\ ~MatchingAckRecorded(S)
               => /\ S \in DOMAIN WAITING_ACK_BY_SN'
                  /\ WAITING_ACK_BY_SN'[S] = WAITING_ACK_BY_SN[S]
            /\ iclock_getrequest(S)
               => /\ response' = [status |-> 200, body |-> "OK\n"]
                  /\ NEXT_CMD_ID' = NEXT_CMD_ID
                  /\ dispatched' = dispatched]_vars

\* AAML1 was sent command 9001; since then an acknowledgement of id 9002
\* came for AAML1, AAML1 was enqueued again and polled again: it still
\* waits for 9001 and the poll was answered OK.
C18_Witness ==
    /\ LAST_GETREQUEST_POLLS = <<[sn |-> "AAML1"], [sn |-> "AAML1"]>>
    /\ Len(LAST_PUSH_ACKS) = 1
    /\ LAST_PUSH_ACKS[1].sn = "AAML1"
    /\ LAST_PUSH_ACKS[1].id = "9002"
    /\ WAITING_ACK_BY_SN = ("AAML1" :> 9001)
    /\ "AAML1" \in DOMAIN PENDING_CLEAR_BY_SN
    /\ dispatched = <<9001>>
    /\ response = [status |-> 200, body |-> "OK\n"]

(***************************************************************************)
(* The handshake.                                                          *)
(***************************************************************************)
\* The text has the line `line`: it stands at the start of the text or
\* after a line feed, and a line feed ends it.
HasLine(text, line) ==
    \E i \in 1..(Len(text) - Len(line)) :
        /\ IF i = 1 THEN TRUE ELSE SubSeq(text, i - 1, i - 1) = "\n"
        /\ SubSeq(text, i, i + Len(line)) = line \o "\n"

\* C19: the response to a handshake poll (options=all or a non-empty
\* pushver) has the line PushProtVer=<server version>, and no PushProtVer
\* line of another version, whether the device advertises an older, the
\* same or a newer version or none.
C19_HandshakeAnnouncesServerVersion ==
    [][\A SN \in {"AAML1", Absent}, options \in Options,
          pushver \in PushVers :
         (IsHandshake(options, pushver) /\ IclockCdataGet(SN, options, pushver))
         => /\ HasLine(response'.body,
                       "PushProtVer=" \o SERVER_PUSH_PROTOCOL_VERSION)
            /\ \A v \in PushVers \ {Absent, "", SERVER_PUSH_PROTOCOL_VERSION} :
                  ~HasLine(response'.body, "PushProtVer=" \o v)]_vars

\* A device that advertises the older version 2.2.14 has been answered,
\* and the answer announces the server's version.
C19_Witness ==
    /\ Len(LAST_HANDSHAKES) = 1
    /\ LAST_HANDSHAKES[1].device_pushver = "2.2.14"
    /\ handshake_bodies # {}
    /\ \A reply \in handshake_bodies :
          /\ reply[2] = response.body
          /\ HasLine(reply[2], "PushProtVer=2.3.2")

\* C20: a handshake leaves the event store, the session store, the pending
\* flags, the waiting-ack map and the command-id counter as they are, and
\* all handshake polls of one serial number are answered with the same
\* body, whatever was handled between them.
C20_HandshakeIdempotent ==
    [][/\ \A SN \in {"AAML1", Absent}, options \in Options,
             pushver \in PushVers :
            (IsHandshake(options, pushver) /\ IclockCdataGet(SN, options, pushver))
            => UNCHANGED <<attendance_logs, attendance_sessions,
                           PENDING_CLEAR_BY_SN, WAITING_ACK_BY_SN, NEXT_CMD_ID>>
       /\ \A reply, other \in handshake_bodies' :
            reply[1] = other[1] => reply[2] = other[2]]_vars

\* AAML1 was sent command 9001 and enqueued again; it then shook hands
\* twice, the second time with another version: one body was returned and
\* the queue stands as before.
C20_Witness ==
    /\ Len(LAST_HANDSHAKES) = 2
    /\ LAST_HANDSHAKES[1].sn = "AAML1" /\ LAST_HANDSHAKES[2].sn = "AAML1"
    /\ LAST_HANDSHAKES[1].device_pushver = "3.0.1"
    /\ LAST_HANDSHAKES[2].device_pushver = "(missing)"
    /\ Cardinality(handshake_bodies) = 1
    /\ WAITING_ACK_BY_SN = ("AAML1" :> 9001)
    /\ "AAML1" \in DOMAIN PENDING_CLEAR_BY_SN
    /\ NEXT_CMD_ID = 9002

\* The text begins with the first line of the handshake block.
IsHandshakeBlock(text) ==
    /\ Len(text) > 17
    /\ SubSeq(text, 1, 17) = "GET OPTION FROM: "

\* C21: a GET on /iclock/cdata is answered with the handshake block exactly
\* if options is "all" or pushver is not empty; every other GET is answered
\* 200 "OK\n" and leaves the events, the sessions, the pending flags, the
\* waiting-ack map and the counter as they are.
C21_PlainPollAnsweredOk ==
    [][\A SN \in {"AAML1", Absent}, options \in Options, pushver \in PushVers :
         IclockCdataGet(SN, options, pushver)
         => /\ IsHandshakeBlock(response'.body) <=> IsHandshake(options, pushver)
            /\ ~IsHandshake(options, pushver)
               => /\ response' = [status |-> 200, body |-> "OK\n"]
                  /\ UNCHANGED <<attendance_logs, attendance_sessions,
                                 PENDING_CLEAR_BY_SN, WAITING_ACK_BY_SN,
                                 NEXT_CMD_ID>>]_vars

\* After an enqueue and a handshake, a poll that is no handshake was
\* answered OK: the enqueue and the handshake answer otherwise, and no
\* upload and no mailbox poll has been made.
C21_Witness ==
    /\ Len(LAST_HANDSHAKES) = 1
    /\ LAST_ICLOCK = <<>>
    /\ LAST_GETREQUEST_POLLS = <<>>
    /\ "AAML1" \in DOMAIN PENDING_CLEAR_BY_SN
    /\ handshake_bodies # {}
    /\ response = [status |-> 200, body |-> "OK\n"]

(***************************************************************************)
(* The ring buffers.                                                       *)
(***************************************************************************)
\* What a step may do to a ring buffer: leave it, append one entry to a
\* buffer of fewer than 50, or drop the first entry of a buffer of 50 and
\* append one; the entries that stay keep their order.
RingStep(buf, next) ==
    \/ next = buf
    \/ /\ Len(buf) < 50
       /\ Len(next) = Len(buf) + 1
       /\ SubSeq(next, 1, Len(buf)) = buf
    \/ /\ Len(buf) = 50
       /\ Len(next) = 50
       /\ SubSeq(next, 1, 49) = Tail(buf)

\* C22: each of the four ring buffers holds at most 50 entries; an append
\* to a buffer of 50 drops exactly its oldest entry, and the entries that
\* remain are in the order they were appended.
C22_RingBuffersBounded ==
    [][/\ Len(LAST_ICLOCK') <= 50 /\ Len(LAST_HANDSHAKES') <= 50
       /\ Len(LAST_GETREQUEST_POLLS') <= 50 /\ Len(LAST_PUSH_ACKS') <= 50
       /\ RingStep(LAST_ICLOCK, LAST_ICLOCK')
       /\ RingStep(LAST_HANDSHAKES, LAST_HANDSHAKES')
       /\ RingStep(LAST_GETREQUEST_POLLS, LAST_GETREQUEST_POLLS')
       /\ RingStep(LAST_PUSH_ACKS, LAST_PUSH_ACKS')]_vars

\* Two mailbox polls of AAML1 came to a ring of 49 polls: the first filled
\* it, the second dropped the oldest entry, a poll of AAML2; the ring
\* begins with what was its second entry.
C22_Witness ==
    /\ tasks[2].op = "getrequest" /\ tasks[2].pc = "done"
    /\ tasks[1].op = "getrequest"
    /\ tasks[3].pc = "idle"
    /\ Len(LAST_GETREQUEST_POLLS) = 50
    /\ LAST_GETREQUEST_POLLS[1] = [sn |-> ""]
    /\ LAST_GETREQUEST_POLLS[2] = [sn |-> "AAML2"]
    /\ LAST_GETREQUEST_POLLS[48] = [sn |-> "AAML2"]
    /\ LAST_GETREQUEST_POLLS[49] = [sn |-> "AAML1"]
    /\ LAST_GETREQUEST_POLLS[50] = [sn |-> "AAML1"]

\* The step is a call of a terminal: a discovery or handshake poll, an
\* upload, a mailbox poll or an acknowledgement.
TerminalCall ==
    Discover \/ UploadPunch \/ Upload \/ Poll \/ AckDeviceCmd \/ AckCdata

\* C23: every call of a terminal appends an entry to at least one of the
\* four ring buffers, whatever its outcome.
C23_EveryCallRecorded ==
    [][ring_vars' # ring_vars \/ ~TerminalCall]_vars

(***************************************************************************)
(* Life of the stored events and sessions.                                 *)
(***************************************************************************)
\* C24: a stored event is never updated or deleted: every row of
\* attendance_logs is in the table after every step, at its place, with
\* the same badge id, timestamp, status, verification code and serial
\* number.
C24_EventsImmutable ==
    [][/\ Len(attendance_logs') >= Len(attendance_logs)
       /\ \A i \in DOMAIN attendance_logs :
             /\ attendance_logs'[i].pin = attendance_logs[i].pin
             /\ attendance_logs'[i].timestamp = attendance_logs[i].timestamp
             /\ attendance_logs'[i].status = attendance_logs[i].status
             /\ attendance_logs'[i].verify_type = attendance_logs[i].verify_type
             /\ attendance_logs'[i].device_sn = attendance_logs[i].device_sn]_vars

\* Two uploads stored the 08:00 punch of badge 8 and the 17:00 and next
\* day's punches of badge 7; the third upload failed at its commit: the
\* three events are as they were stored.
C24_Witness ==
    /\ Len(LAST_ICLOCK) = 3
    /\ response = [status |-> 500, body |-> "ERROR\n"]
    /\ Len(attendance_logs) = 3
    /\ attendance_logs[1].raw_data = DeviceLog[1]
    /\ attendance_logs[2].raw_data = DeviceLog[4]
    /\ attendance_logs[3].raw_data = DeviceLog[5]

\* C25: a session is created open, with the timestamp of an event stored
\* in the same step as its check-in; the only change of a session is from
\* open to closed; a closed session never changes; no session is deleted.
C25_SessionLifecycle ==
    [][/\ Len(attendance_sessions') >= Len(attendance_sessions)
       /\ \A i \in DOMAIN attendance_sessions :
             LET old == attendance_sessions[i]
                 new == attendance_sessions'[i]
             IN  /\ new.pin = old.pin
                 /\ new.check_in = old.check_in
                 /\ old.status = "closed" => new = old
                 /\ old.status = "open"
                    => new = old \/ (new.status = "closed" /\ new.check_out # None)
       /\ \A i \in (Len(attendance_sessions) + 1)..Len(attendance_sessions') :
             LET new == attendance_sessions'[i]
             IN  /\ new.status = "open"
                 /\ new.check_out = None
                 /\ \E j \in (Len(attendance_logs) + 1)..Len(attendance_logs') :
                       /\ attendance_logs'[j].pin = new.pin
                       /\ attendance_logs'[j].timestamp = new.check_in]_vars

\* Three uploads of one punch of badge 7 each: the first session was
\* opened at 08:00 and closed at 17:00, the second is open since 08:00 of
\* the next day.
C25_Witness ==
    /\ Len(LAST_ICLOCK) = 3
    /\ attendance_sessions =
          << [pin |-> "7", check_in |-> 28800, check_out |-> Some(61200),
              status |-> "closed"],
             [pin |-> "7", check_in |-> 115200, check_out |-> None,
              status |-> "open"] >>

(***************************************************************************)
(* What pairing depends on.                                                *)
(***************************************************************************)
\* The ways a terminal may code its status field otherwise: each of the
\* codes "0" and "1" of the log is sent as "0", "1" or "255".
StatusCodings == [{"0", "1"} -> {"0", "1", "255"}]

RecodeLine(coding, line) ==
    IF Len(line) >= 3 /\ line[3] \in DOMAIN coding
    THEN [line EXCEPT ![3] = coding[line[3]]]
    ELSE line

RecodeLines(coding, lines) == [i \in DOMAIN lines |-> RecodeLine(coding, lines[i])]

\* The events the other coding would have stored for the same lines.
RecodeLogs(coding, db_logs) ==
    [i \in DOMAIN db_logs |->
        [db_logs[i] EXCEPT
            !.raw_data = RecodeLine(coding, db_logs[i].raw_data),
            !.status = PyInt(RecodeLine(coding, db_logs[i].raw_data)[3])[1]]]

\* C26: pairing does not depend on the status codes.  Two upload histories
\* that differ only in the status field of their lines have the same
\* sessions and the same events but for the status: from such a pair of
\* stores, a batch and its recoded batch lead to such a pair again.
C26_PairingIgnoresStatus ==
    \A lines \in PunchBatches :
        LET here == AttlogLoop(attendance_logs, attendance_sessions,
                               lines, "AAML1")
            sessions_here == {CommitSessions(txn) : txn \in here}
        IN  \A coding \in StatusCodings :
               LET twin_logs == RecodeLogs(coding, attendance_logs)
                   there == AttlogLoop(twin_logs, attendance_sessions,
                                       RecodeLines(coding, lines), "AAML1")
               IN  /\ sessions_here = {CommitSessions(txn) : txn \in there}
                   /\ {RecodeLogs(coding, CommitLogs(attendance_logs, txn))
                          : txn \in here}
                      = {CommitLogs(twin_logs, txn) : txn \in there}

\* The session of badge 7 was opened by a punch of status 1 and closed by
\* a punch of status 0.
C26_Witness ==
    /\ Len(attendance_logs) = 2
    /\ attendance_logs[1].pin = "7" /\ attendance_logs[1].status = 1
    /\ attendance_logs[1].timestamp = 61200
    /\ attendance_logs[2].pin = "7" /\ attendance_logs[2].status = 0
    /\ attendance_logs[2].timestamp = 115200
    /\ attendance_sessions =
          << [pin |-> "7", check_in |-> 61200, check_out |-> Some(115200),
              status |-> "closed"] >>

(***************************************************************************)
(* Pairing inside one batch.                                               *)
(***************************************************************************)
\* The events of a badge that the step has added, in the order they were
\* accepted.
AddedEvents(pin) ==
    SelectSeq(SubSeq(attendance_logs', Len(attendance_logs) + 1,
                     Len(attendance_logs')),
              LAMBDA row : row.pin = pin)

\* C27: pairing follows arrival order.  When a badge has an open session
\* and the next event accepted for it carries a timestamp earlier than the
\* session's check-in, that event closes the session, its timestamp is the
\* check-out, and no session is opened at it.
C27_ArrivalOrderPairing ==
    [][\A pin \in Badges :
         \A i \in OpenSessionsOf(pin) :
            (/\ OpenSessionsOf(pin) = {i}
             /\ AddedEvents(pin) # <<>>
             /\ AddedEvents(pin)[1].timestamp < attendance_sessions[i].check_in)
            => /\ attendance_sessions'[i].status = "closed"
               /\ attendance_sessions'[i].check_out =
                     Some(AddedEvents(pin)[1].timestamp)
               /\ \A j \in (Len(attendance_sessions) + 1)..Len(attendance_sessions') :
                     \/ attendance_sessions'[j].pin # pin
                     \/ attendance_sessions'[j].check_in #
                           AddedEvents(pin)[1].timestamp]_vars

\* The rows the step has added to a table.
AddedLogs ==
    SubSeq(attendance_logs', Len(attendance_logs) + 1, Len(attendance_logs'))
AddedSessions ==
    SubSeq(attendance_sessions', Len(attendance_sessions) + 1,
           Len(attendance_sessions'))

\* C28: the duplicate check covers the events accepted earlier in the same
\* batch.  The events one upload stores carry pairwise different (badge id,
\* timestamp) pairs, the stored count is the number of those pairs, and no
\* two sessions the upload opens start at the same event.
C28_DuplicateWithinBatchSkipped ==
    [][AddedLogs # <<>> =>
         /\ \A i, j \in DOMAIN AddedLogs :
               (/\ AddedLogs[i].pin = AddedLogs[j].pin
                /\ AddedLogs[i].timestamp = AddedLogs[j].timestamp) => i = j
         /\ attlog_counts'.stored_count =
               Cardinality({<<AddedLogs[i].pin, AddedLogs[i].timestamp>> :
                               i \in DOMAIN AddedLogs})
         /\ \A i, j \in DOMAIN AddedSessions :
               (/\ AddedSessions[i].pin = AddedSessions[j].pin
                /\ AddedSessions[i].check_in = AddedSessions[j].check_in)
               => i = j]_vars

(***************************************************************************)
(* Lines that are already stored.                                          *)
(***************************************************************************)
\* The session tables an upload of the lines may commit.
SessionsAfter(db_logs, db_sessions, lines) ==
    {CommitSessions(txn) : txn \in AttlogLoop(db_logs, db_sessions, lines, "AAML1")}

\* A line whose event is not a stored one: a malformed line, or a
\* well-formed line whose pair is not in the table.
NotStoredLine(line) == ~WellFormed(line) \/ NotYetStored(line)

\* C29: a line skipped as a duplicate of a stored event never changes
\* sessions.  From every store the uploads reach and for every batch, the
\* batch leaves the sessions as the batch without its already stored lines
\* leaves them; a batch whose well-formed lines are all stored leaves every
\* session (count, check-in, check-out, state) exactly as it was.
C29_DuplicatesLeaveSessions ==
    \A lines \in AttlogBatches :
        LET after == SessionsAfter(attendance_logs, attendance_sessions, lines)
        IN  /\ after = SessionsAfter(attendance_logs, attendance_sessions,
                                     SelectSeq(lines, NotStoredLine))
            /\ (\A i \in DOMAIN lines :
                   WellFormed(lines[i]) => ~NotYetStored(lines[i]))
               => after = {attendance_sessions}

\* Badge 7 punched at 08:00 and at 17:00 in two uploads; a third upload
\* repeated stored lines only, and the closed session is as it was.
C29_Witness ==
    /\ Len(LAST_ICLOCK) = 3
    /\ Len(attendance_logs) = 2
    /\ attlog_counts = [stored_count |-> 0, error_count |-> 0]
    /\ attendance_sessions =
          << [pin |-> "7", check_in |-> 28800,
              check_out |-> Some(61200), status |-> "closed"] >>

(***************************************************************************)
(* Events and sessions counted.                                            *)
(***************************************************************************)
\* The closed sessions of a badge.
ClosedSessionsOf(pin) ==
    {i \in DOMAIN attendance_sessions :
        attendance_sessions[i].pin = pin /\ attendance_sessions[i].status = "closed"}

\* C30: every accepted event either opens exactly one session or closes
\* exactly one.  In every committed state and for every badge id, the
\* number of stored events is the number of its sessions plus the number of
\* its closed sessions.
C30_EventsCountSessions ==
    \A pin \in Badges :
        Len(LogsOf(pin)) = Len(SessionsOf(pin)) + Cardinality(ClosedSessionsOf(pin))

(***************************************************************************)
(* Status and check-out of a session.                                      *)
(***************************************************************************)
\* C31: in every reachable state a session has status "closed" exactly if
\* its check-out is set and status "open" exactly if its check-out is
\* null; no session has another status.
C31_StatusFollowsCheckOut ==
    \A i \in DOMAIN attendance_sessions :
        LET row == attendance_sessions[i]
        IN  /\ row.status \in {"open", "closed"}
            /\ row.status = "closed" <=> row.check_out # None
            /\ row.status = "open" <=> row.check_out = None

\* Badge 8 has an open session and badge 7 a closed one.
C31_Witness ==
    /\ attendance_sessions =
          << [pin |-> "8", check_in |-> 28800, check_out |-> None,
              status |-> "open"],
             [pin |-> "7", check_in |-> 28800, check_out |-> Some(61200),
              status |-> "closed"] >>
    /\ Len(attendance_logs) = 3

(***************************************************************************)
(* A command enqueued while another awaits its acknowledgement.            *)
(***************************************************************************)
\* The flag of S is set while S has a waiting-ack entry: a dispatch clears
\* the flag, so the enqueue came after the dispatch still awaited.
QueuedBehind(S) ==
    /\ S \in DOMAIN WAITING_ACK_BY_SN
    /\ S \in DOMAIN PENDING_CLEAR_BY_SN
    /\ PENDING_CLEAR_BY_SN[S]

\* C32: a command enqueued for S while an earlier command for S awaits its
\* acknowledgement is not lost and not dispatched early.  While S has its
\* waiting-ack entry no step clears the flag, no step sends S another id,
\* and a poll for S is answered OK and leaves the queue as it is; once the
\* entry is gone, the first poll for S dispatches the command with an id
\* larger than every id dispatched before.
C32_QueuedBehindWaiting ==
    [][\A S \in SNs :
         /\ QueuedBehind(S)
            => /\ S \in DOMAIN PENDING_CLEAR_BY_SN'
               /\ PENDING_CLEAR_BY_SN'[S]
               /\ S \in DOMAIN WAITING_ACK_BY_SN'
                  => WAITING_ACK_BY_SN'[S] = WAITING_ACK_BY_SN[S]
               /\ iclock_getrequest(S)
                  => /\ response' = [status |-> 200, body |-> "OK\n"]
                     /\ UNCHANGED queue_vars
                     /\ dispatched' = dispatched
         /\ (/\ S \in DOMAIN PENDING_CLEAR_BY_SN
             /\ PENDING_CLEAR_BY_SN[S]
             /\ S \notin DOMAIN WAITING_ACK_BY_SN
             /\ dispatched # <<>>
             /\ iclock_getrequest(S))
            => \E id \in CmdIds :
                  /\ \A k \in DOMAIN dispatched : dispatched[k] < id
                  /\ dispatched' = Append(dispatched, id)
                  /\ response' = [status |-> 200, body |-> Framed(id)]
                  /\ WAITING_ACK_BY_SN'[S] = id
                  /\ S \notin DOMAIN PENDING_CLEAR_BY_SN']_vars

\* AAML1 was sent 9001, a second command was enqueued for it, and its next
\* poll, before any acknowledgement, got OK: the flag is still set.
C32_Witness ==
    /\ QueuedBehind("AAML1")
    /\ WAITING_ACK_BY_SN["AAML1"] = 9001
    /\ LAST_GETREQUEST_POLLS = <<[sn |-> "AAML1"], [sn |-> "AAML1"]>>
    /\ LAST_PUSH_ACKS = <<>>
    /\ dispatched = <<9001>>
    /\ response = [status |-> 200, body |-> "OK\n"]

(***************************************************************************)
(* Eventual delivery.                                                      *)
(***************************************************************************)
\* The last call was a poll that sent S the command S now waits for.
Delivered(S) ==
    /\ S \notin DOMAIN PENDING_CLEAR_BY_SN
    /\ S \in DOMAIN WAITING_ACK_BY_SN
    /\ response = [status |-> 200, body |-> Framed(WAITING_ACK_BY_SN[S])]

\* C33: eventual delivery.  When the terminal AAML1 keeps polling and
\* acknowledges every command it is sent with the id it was sent, every
\* enqueue for AAML1 (its flag is set) is followed by a dispatch of a
\* command to AAML1.
C33_EventualDelivery ==
    ("AAML1" \in DOMAIN PENDING_CLEAR_BY_SN) ~> Delivered("AAML1")

\* AAML1 has been sent its third command after acknowledging the first
\* two, and the poll buffer is full.
C33_Witness ==
    /\ Delivered("AAML1")
    /\ dispatched = <<9001, 9002, 9003>>
    /\ Len(LAST_GETREQUEST_POLLS) = RING_CAPACITY
    /\ Len(LAST_PUSH_ACKS) >= 2

(***************************************************************************)
(* Isolation of the serials.                                               *)
(***************************************************************************)
\* The queue state of one serial: its flag and its waiting-ack entry.
FlagOf(pending, S) == DictGet(pending, S, FALSE)
EntryOf(waiting, S) == IF S \in DOMAIN waiting THEN Some(waiting[S]) ELSE None

\* The step is a poll with query parameter SN, or an enqueue for sn.  (The
\* first conjunct of each follows from the second: it spares evaluating the
\* handler on the steps that are another call.)
PollStep(SN) ==
    /\ LAST_GETREQUEST_POLLS' # LAST_GETREQUEST_POLLS
    /\ iclock_getrequest(SN)

EnqueueStep(sn) ==
    /\ ring_vars' = ring_vars
    /\ admin_clear_attlog(sn)

\* C34: isolation of the serials.  An enqueue or a poll for serial A
\* leaves the flag and the waiting-ack entry of every other serial B as
\* they were.  A command goes out to a serial (its waiting-ack entry gets
\* an id) only when its own flag was set, and the step clears that flag;
\* a flag gets set only by an enqueue for its own serial.
C34_SerialIsolation ==
    [][/\ \A A \in PollSNs :
            (EnqueueStep(QueryGet(A, "")) \/ PollStep(A))
            => \A B \in SNs \ {QueryGet(A, "")} :
                  /\ FlagOf(PENDING_CLEAR_BY_SN', B) = FlagOf(PENDING_CLEAR_BY_SN, B)
                  /\ EntryOf(WAITING_ACK_BY_SN', B) = EntryOf(WAITING_ACK_BY_SN, B)
       /\ \A S \in SNs :
            /\ (/\ EntryOf(WAITING_ACK_BY_SN', S) # None
                /\ EntryOf(WAITING_ACK_BY_SN', S) # EntryOf(WAITING_ACK_BY_SN, S))
               => /\ FlagOf(PENDING_CLEAR_BY_SN, S)
                  /\ ~FlagOf(PENDING_CLEAR_BY_SN', S)
                  /\ PollStep(S)
            /\ (~FlagOf(PENDING_CLEAR_BY_SN, S) /\ FlagOf(PENDING_CLEAR_BY_SN', S))
               => EnqueueStep(S)]_vars

\* Commands were enqueued for both serials; AAML1 polled and was sent
\* 9001, and the command of AAML2 is still queued.
C34_Witness ==
    /\ DOMAIN PENDING_CLEAR_BY_SN = {"AAML2"}
    /\ DOMAIN WAITING_ACK_BY_SN = {"AAML1"}
    /\ LAST_GETREQUEST_POLLS = <<[sn |-> "AAML1"]>>
    /\ LAST_PUSH_ACKS = <<>>
    /\ response = [status |-> 200, body |-> "C:9001:CLEAR LOG\n"]

(***************************************************************************)
(* What an acknowledgement may change.                                     *)
(***************************************************************************)
\* C35: an acknowledgement, on either path, can remove only the
\* waiting-ack entry of the serial it resolves to: the SN field of the body
\* when it is not empty, otherwise the SN query parameter.  The entries of
\* all other serials, the pending flags and the counter are unchanged, and
\* no entry is added or given another id.  A body SN that names another
\* terminal than the caller's query SN decides: with the id that terminal
\* waits for, it is that terminal's entry that goes.
C35_AckTouchesOwnEntry ==
    [][AckArrived =>
         \A SN \in AckSNs, body \in AckBodies :
            (IsAck(body.form) /\ AckStep(SN, body))
            => LET target == AckTarget(SN, body.form)
               IN  /\ UNCHANGED <<PENDING_CLEAR_BY_SN, NEXT_CMD_ID>>
                   /\ \A T \in (SNs \cup DOMAIN WAITING_ACK_BY_SN
                                    \cup DOMAIN WAITING_ACK_BY_SN') \ {target} :
                         EntryOf(WAITING_ACK_BY_SN', T) = EntryOf(WAITING_ACK_BY_SN, T)
                   /\ EntryOf(WAITING_ACK_BY_SN', target)
                         \in {None, EntryOf(WAITING_ACK_BY_SN, target)}
                   /\ (DictGet(body.form, "SN", "") # "" /\ IdMatches(SN, body.form))
                      => body.form["SN"] \notin DOMAIN WAITING_ACK_BY_SN']_vars

\* Both terminals were sent a command; an acknowledgement of 9002 that
\* arrived with the query serial AAML1 and the body serial AAML2 removed
\* the entry of AAML2, and AAML1 still waits for 9001.
C35_Witness ==
    /\ Len(LAST_PUSH_ACKS) = 1
    /\ LAST_PUSH_ACKS[1].sn = "AAML2"
    /\ LAST_PUSH_ACKS[1].id = "9002"
    /\ LAST_ICLOCK[1].SN = "AAML1"
    /\ DOMAIN WAITING_ACK_BY_SN = {"AAML1"}
    /\ WAITING_ACK_BY_SN["AAML1"] = 9001
    /\ NEXT_CMD_ID = 9003

(***************************************************************************)
(* The two acknowledgement paths.                                          *)
(***************************************************************************)
\* C36: the two acknowledgement paths are equivalent.  For every queue
\* state, every acknowledgement body and every SN query parameter (present
\* or not), a step is the POST of the body to /iclock/devicecmd exactly if
\* it is the POST of the body to /iclock/cdata without table=ATTLOG: the
\* same waiting-ack map, the same pending flags, the same entry appended to
\* the ack buffer and the same OK response.  (The raw-hit entries of the
\* two calls are the same record in the model.)
C36_AckPathsEquivalent ==
    [][AckArrived =>
         \A SN \in AckSNs, body \in AckBodies :
            IsAck(body.form)
            => (iclock_devicecmd(SN, body)
                   <=> IclockCdataPost(SN, Absent, body, TRUE))]_vars

(***************************************************************************)
(* The command-id counter.                                                 *)
(***************************************************************************)
\* Every id in the waiting-ack map was minted (it is at least the first id
\* and below the counter) and is held by one serial.
WaitingIdsMinted ==
    \A S \in DOMAIN WAITING_ACK_BY_SN :
        /\ WAITING_ACK_BY_SN[S] >= 9001
        /\ WAITING_ACK_BY_SN[S] < NEXT_CMD_ID
        /\ \A T \in DOMAIN WAITING_ACK_BY_SN :
              WAITING_ACK_BY_SN[T] = WAITING_ACK_BY_SN[S] => T = S

\* C37: the command-id counter changes only on a dispatching poll, by
\* exactly one per dispatch: a step that changes it is a poll that sends
\* the old counter value as the id, and every other step (an enqueue, an
\* acknowledgement, a handshake, an upload, a poll answered OK) leaves it
\* as it is.  In every reachable state every id in the waiting-ack map is
\* at least 9001, below the counter, and held by at most one serial (the
\* map is empty at the start, so it is enough that every step ends in such
\* a state).
C37_CounterMovesOnDispatch ==
    [][/\ NEXT_CMD_ID' # NEXT_CMD_ID
          => /\ NEXT_CMD_ID' = NEXT_CMD_ID + 1
             /\ dispatched' = Append(dispatched, NEXT_CMD_ID)
             /\ response' = [status |-> 200, body |-> Framed(NEXT_CMD_ID)]
             /\ \E S \in SNs : PollStep(S)
       /\ dispatched' # dispatched => NEXT_CMD_ID' = NEXT_CMD_ID + 1
       /\ response' = [status |-> 200, body |-> "OK\n"]
          => NEXT_CMD_ID' = NEXT_CMD_ID
       /\ WaitingIdsMinted']_vars

\* AAML1 was sent 9001; after that it uploaded a punch and registered,
\* and the counter is still 9002.
C37_Witness ==
    /\ NEXT_CMD_ID = 9002
    /\ WAITING_ACK_BY_SN = ("AAML1" :> 9001)
    /\ Len(attendance_logs) = 1
    /\ Len(LAST_HANDSHAKES) = 1
    /\ response = [status |-> 200, body |-> HandshakeBody("AAML1")]

(***************************************************************************)
(* What changes the stores.                                                *)
(***************************************************************************)
\* The step is an upload of this specification: a POST to /iclock/cdata
\* with table=ATTLOG.
AttlogPost ==
    \E k \in 1..2 :
        IclockCdataPost("AAML1", "ATTLOG", AttlogBody(<<DeviceLog[k]>>), TRUE)

\* The step is a POST of an attendance line to /iclock/cdata under a table
\* that is not ATTLOG, or under none.
OtherPost(table) ==
    /\ LAST_ICLOCK' # LAST_ICLOCK
    /\ IclockCdataPost("AAML1", table, AttlogBody(<<DeviceLog[3]>>), TRUE)

\* The step is an acknowledgement on /iclock/devicecmd.
DeviceCmdAck ==
    /\ AckArrived
    /\ \/ \E sn \in DOMAIN WAITING_ACK_BY_SN : iclock_devicecmd(sn, DispatchedAck(sn))
       \/ iclock_devicecmd("AAML1",
             FormBody(("ID" :> "abc") @@ ("Return" :> "0") @@ ("CMD" :> "CLEAR LOG")))

\* What the calls other than a poll do, as C38 states it.
OnlyAttlogChangesStores ==
    /\ store_vars' # store_vars => AttlogPost
    /\ \A table \in Tables :
          OtherPost(table)
          => /\ store_vars' = store_vars
             /\ response' = [status |-> 200, body |-> "OK\n"]
    /\ \A sn \in SNs : EnqueueStep(sn) => store_vars' = store_vars
    /\ DeviceCmdAck
       => /\ store_vars' = store_vars
          /\ response' = [status |-> 200, body |-> "OK\n"]

\* C38 as stated: only a POST to /iclock/cdata with table=ATTLOG changes
\* the events or the sessions; a POST with another table or none, a
\* mailbox poll, an enqueue and an acknowledgement on /iclock/devicecmd
\* leave both tables unchanged, and the post, the poll and the
\* acknowledgement are answered OK.
C38_OnlyAttlogChangesStores ==
    [][/\ OnlyAttlogChangesStores
       /\ \A SN \in PollSNs :
             PollStep(SN)
             => /\ store_vars' = store_vars
                /\ response' = [status |-> 200, body |-> "OK\n"]]_vars

\* C38 amended: as stated, but a mailbox poll is answered OK or, when it
\* dispatches, with the command C:<id>:CLEAR LOG (status 200 either way).
C38_OnlyAttlogChangesStores_Amended ==
    [][/\ OnlyAttlogChangesStores
       /\ \A SN \in PollSNs :
             PollStep(SN)
             => /\ store_vars' = store_vars
                /\ \/ response' = [status |-> 200, body |-> "OK\n"]
                   \/ /\ dispatched' # dispatched
                      /\ \E id \in CmdIds :
                            response' = [status |-> 200, body |-> Framed(id)]]_vars

\* A punch was uploaded; the 08:00 punch of badge 7 was then posted under
\* table=attlog and stored nothing; the poll after it sent 9001.
C38_Witness ==
    /\ Len(attendance_logs) = 1
    /\ Len(attendance_sessions) = 1
    /\ Len(LAST_ICLOCK) = 2
    /\ LAST_ICLOCK[1].table = "ATTLOG"
    /\ LAST_ICLOCK[2].table = "attlog"
    /\ Len(LAST_GETREQUEST_POLLS) = 1
    /\ response = [status |-> 200, body |-> "C:9001:CLEAR LOG\n"]

====
